---------------------------- MODULE Spec2Model ----------------------------
(***************************************************************************)
(* A model of ltparser: the conversion of a parsed LTspice schematic into  *)
(* an lcapy netlist.  Netlists are Python strings; they are modelled as    *)
(* sequences of one-character strings, and the string methods the code     *)
(* uses (split, strip, rstrip, replace, count, join, startswith) are       *)
(* modelled character by character.                                        *)
(***************************************************************************)
EXTENDS Integers, Sequences, FiniteSets, TLC

VARIABLES
    parsed,     \* the parsed records (LTspice.parsed / NetlistGenerator.parsed)
    hasParsed,  \* FALSE when a transformation is called with parsed_data=None
    nodes,      \* the dict NodeManager built (shared with ComponentMatcher)
    gnodes,     \* NetlistGenerator.nodes
    galias,     \* TRUE while NetlistGenerator.nodes is the same dict object as nodes
    counters,   \* NetlistGenerator.component_counters
    opts,       \* the options of the call
    netlist,    \* the text handed to the operation (its input)
    out,        \* the text the operation returned
    hist,       \* the texts returned by the earlier calls
    stmts,      \* the statements the input text was written from
    hashSeed,   \* the iteration order of Python sets of str in this process
    pc          \* position of the driver

vars ==
    <<parsed, hasParsed, nodes, gnodes, galias, counters, opts, netlist, out, hist, stmts,
      hashSeed, pc>>

-----------------------------------------------------------------------------
(* Characters and Python string methods *)

SP == " "
NL == "\n"
SEMI == ";"

IsWS(c) == c = SP \/ c = NL \/ c = "\t"

Digits == <<"0", "1", "2", "3", "4", "5", "6", "7", "8", "9">>

IsDigitChar(c) == \E i \in 1..10 : Digits[i] = c

DigitVal(c) == (CHOOSE i \in 1..10 : Digits[i] = c) - 1

\* str(n) for an integer n >= 0
RECURSIVE IntToStr(_)
IntToStr(n) ==
    IF n < 10 THEN <<Digits[n + 1]>>
    ELSE IntToStr(n \div 10) \o <<Digits[(n % 10) + 1]>>

\* str.isdigit(): non-empty and all digits
IsDigitStr(s) == Len(s) > 0 /\ \A i \in 1..Len(s) : IsDigitChar(s[i])

\* int(s) for a digit string
RECURSIVE StrToIntFrom(_, _, _)
StrToIntFrom(s, i, acc) ==
    IF i > Len(s) THEN acc ELSE StrToIntFrom(s, i + 1, acc * 10 + DigitVal(s[i]))

StrToInt(s) == StrToIntFrom(s, 1, 0)

\* s[i..j] (1-based, inclusive); empty when i > j
Slice(s, i, j) == IF i > j THEN <<>> ELSE SubSeq(s, i, j)

\* s.startswith(p)
StartsWith(s, p) == Len(p) <= Len(s) /\ \A i \in 1..Len(p) : s[i] = p[i]

\* s.endswith(p)
EndsWith(s, p) ==
    Len(p) <= Len(s) /\ \A i \in 1..Len(p) : s[Len(s) - Len(p) + i] = p[i]

\* p occurs in s at position i
MatchAt(s, p, i) == i + Len(p) - 1 <= Len(s) /\ \A k \in 1..Len(p) : s[i + k - 1] = p[k]

\* c in s, for one character
HasChar(s, c) == \E i \in 1..Len(s) : s[i] = c

\* p in s
HasSub(s, p) == \E i \in 1..(Len(s) + 1) : MatchAt(s, p, i)

\* s.count(p): non-overlapping occurrences, scanning from the left
RECURSIVE CountFrom(_, _, _)
CountFrom(s, p, i) ==
    IF i + Len(p) - 1 > Len(s) THEN 0
    ELSE IF MatchAt(s, p, i) THEN 1 + CountFrom(s, p, i + Len(p))
    ELSE CountFrom(s, p, i + 1)

Count(s, p) == CountFrom(s, p, 1)

\* s.replace(old, new) for a non-empty old: non-overlapping, from the left
RECURSIVE ReplaceFrom(_, _, _, _, _)
ReplaceFrom(s, old, new, i, acc) ==
    IF i > Len(s) THEN acc
    ELSE IF MatchAt(s, old, i) THEN ReplaceFrom(s, old, new, i + Len(old), acc \o new)
    ELSE ReplaceFrom(s, old, new, i + 1, Append(acc, s[i]))

Replace(s, old, new) == ReplaceFrom(s, old, new, 1, <<>>)

\* s.rstrip(c) for one character c
RECURSIVE RStripChar(_, _)
RStripChar(s, c) ==
    IF Len(s) > 0 /\ s[Len(s)] = c THEN RStripChar(SubSeq(s, 1, Len(s) - 1), c) ELSE s

RECURSIVE LStripWS(_)
LStripWS(s) == IF Len(s) > 0 /\ IsWS(s[1]) THEN LStripWS(Tail(s)) ELSE s

RECURSIVE RStripWS(_)
RStripWS(s) ==
    IF Len(s) > 0 /\ IsWS(s[Len(s)]) THEN RStripWS(SubSeq(s, 1, Len(s) - 1)) ELSE s

\* s.strip()
Strip(s) == LStripWS(RStripWS(s))

\* s.split(c) for one character c: always at least one piece
RECURSIVE SplitCharFrom(_, _, _, _, _)
SplitCharFrom(s, c, i, cur, acc) ==
    IF i > Len(s) THEN Append(acc, cur)
    ELSE IF s[i] = c THEN SplitCharFrom(s, c, i + 1, <<>>, Append(acc, cur))
    ELSE SplitCharFrom(s, c, i + 1, Append(cur, s[i]), acc)

SplitChar(s, c) == SplitCharFrom(s, c, 1, <<>>, <<>>)

\* s.split(): pieces between runs of whitespace, no empty piece
RECURSIVE SplitWSFrom(_, _, _, _)
SplitWSFrom(s, i, cur, acc) ==
    IF i > Len(s) THEN (IF cur = <<>> THEN acc ELSE Append(acc, cur))
    ELSE IF IsWS(s[i])
         THEN SplitWSFrom(s, i + 1, <<>>, IF cur = <<>> THEN acc ELSE Append(acc, cur))
    ELSE SplitWSFrom(s, i + 1, Append(cur, s[i]), acc)

SplitWS(s) == SplitWSFrom(s, 1, <<>>, <<>>)

\* sep.join(parts)
RECURSIVE JoinFrom(_, _, _, _)
JoinFrom(parts, sep, i, acc) ==
    IF i > Len(parts) THEN acc
    ELSE JoinFrom(parts, sep, i + 1, IF i = 1 THEN parts[1] ELSE acc \o sep \o parts[i])

Join(parts, sep) == JoinFrom(parts, sep, 1, <<>>)

\* the first index of c in s, or 0
FirstIndex(s, c) ==
    IF HasChar(s, c) THEN CHOOSE i \in 1..Len(s) : s[i] = c /\ \A j \in 1..(i - 1) : s[j] # c
    ELSE 0

\* the concatenation of a sequence of strings
Cat(ss) == Join(ss, <<>>)

\* "not line.strip()"
IsBlank(line) == Strip(line) = <<>>


-----------------------------------------------------------------------------
(* String literals of the code *)

sZero == <<"0">>
sZeroUnd == <<"0", "_">>
sX == <<"x">>
sQ == <<"?">>
sSemi == <<";">>
sSpace == <<" ">>
sNL == <<"\n">>
sW == <<"W">>
sR == <<"R">>
sL == <<"L">>
sC == <<"C">>
sE == <<"E">>
sV == <<"V">>
sI == <<"I">>
sLeft == <<"l", "e", "f", "t">>
sUp == <<"u", "p">>
sRight == <<"r", "i", "g", "h", "t">>
sDown == <<"d", "o", "w", "n">>
sOpamp == <<"o", "p", "a", "m", "p">>

-----------------------------------------------------------------------------
(* Node ids.  A dict value is a Python int or a Python str; both are kept   *)
(* as [int |-> BOOLEAN, s |-> its text], so str(v) is v.s.                  *)

IntId(n) == [int |-> TRUE, s |-> IntToStr(n)]
StrId(s) == [int |-> FALSE, s |-> s]
Unknown == StrId(sQ)

\* the dict as the ordered sequence of its items, each [k |-> <<x, y>>, v |-> id]
DictHas(d, k) == \E i \in 1..Len(d) : d[i].k = k

DictGet(d, k, default) ==
    IF DictHas(d, k) THEN d[CHOOSE i \in 1..Len(d) : d[i].k = k].v ELSE default

\* d[k] = v: an existing key keeps its place, a new key goes last
DictSet(d, k, v) ==
    IF DictHas(d, k)
    THEN [i \in 1..Len(d) |-> IF d[i].k = k THEN [k |-> k, v |-> v] ELSE d[i]]
    ELSE Append(d, [k |-> k, v |-> v])

-----------------------------------------------------------------------------
(* Parsed records.  A record of parsed_data is a Python list; the model     *)
(* keeps its shape: a WIRE list with the items parse() appended to it, a    *)
(* group (a list whose first element is a list), an IOPIN list, a TEXT list.*)

Flag(x, y, label) ==
    [tag |-> "FLAG", x |-> x, y |-> y, kind |-> "", rot |-> "", name |-> "", val |-> label]
Symbol(kind, x, y, rot) ==
    [tag |-> "SYMBOL", x |-> x, y |-> y, kind |-> kind, rot |-> rot, name |-> "", val |-> <<>>]
Attr(name, val) ==
    [tag |-> "SYMATTR", x |-> 0, y |-> 0, kind |-> "", rot |-> "", name |-> name, val |-> val]

Wire(x1, y1, x2, y2, items) == [tag |-> "WIRE", c |-> <<x1, y1, x2, y2>>, items |-> items]
Group(items) == [tag |-> "GROUP", c |-> <<>>, items |-> items]
IOPin(x, y) == [tag |-> "IOPIN", c |-> <<x, y>>, items |-> <<>>]

\* name == 0 or name == "0"
IsGroundLabel(label) == label = sZero

-----------------------------------------------------------------------------
(* transformations.py *)

\* the node positions of a statement (1-based: parts[1] is the name)
NodePositions(parts) ==
    IF StartsWith(parts[1], sE) /\ Len(parts) >= 6 THEN <<2, 3, 5, 6>>
    ELSE IF (StartsWith(parts[1], sV) \/ StartsWith(parts[1], sI)) /\ Len(parts) >= 4
         THEN <<2, 3>>
    ELSE <<2, 3>>

\* the ground locations renumber_grounds reads from parsed_data
GroundLocationsOfParsed(pd) ==
    {<<pd[i].items[1].x, pd[i].items[1].y>> :
        i \in {j \in 1..Len(pd) :
                  /\ pd[j].tag = "GROUP"
                  /\ Len(pd[j].items) > 0
                  /\ pd[j].items[1].tag = "FLAG"
                  /\ IsGroundLabel(pd[j].items[1].val)}}

\* the fallback count of ground occurrences in the text
GroundCountOfText(text) ==
    Count(text, <<" ", "0", ";">>) + Count(text, <<" ", "0", " ">>)
        + Count(text, <<" ", "0", "\n">>)

SingleGround(text, hp, pd) ==
    IF hp THEN Cardinality(GroundLocationsOfParsed(pd)) <= 1
    ELSE GroundCountOfText(text) <= 1

GroundMarker(n) == <<"0", "_">> \o IntToStr(n) \o sX

\* marks the ground fields of one statement; gc is ground_counter
RECURSIVE MarkGroundParts(_, _, _, _, _)
MarkGroundParts(parts, mod, positions, i, gc) ==
    IF i > Len(positions) THEN [parts |-> mod, gc |-> gc]
    ELSE LET pos == positions[i] IN
         IF pos <= Len(parts) /\ RStripChar(parts[pos], SEMI) = sZero
         THEN MarkGroundParts(parts,
                  [mod EXCEPT ![pos] = GroundMarker(gc + 1)
                                        \o (IF EndsWith(parts[pos], sSemi) THEN sSemi ELSE <<>>)],
                  positions, i + 1, gc + 1)
         ELSE MarkGroundParts(parts, mod, positions, i + 1, gc)

RECURSIVE MarkGroundLines(_, _, _, _)
MarkGroundLines(lines, i, gc, acc) ==
    IF i > Len(lines) THEN [lines |-> acc, gc |-> gc]
    ELSE LET line == lines[i]
             parts == SplitWS(line)
         IN  IF IsBlank(line) \/ Len(parts) < 3
             THEN MarkGroundLines(lines, i + 1, gc, Append(acc, line))
             ELSE LET m == MarkGroundParts(parts, parts, NodePositions(parts), 1, gc)
                  IN  MarkGroundLines(lines, i + 1, m.gc,
                          Append(acc, IF m.parts # parts THEN Join(m.parts, sSpace) ELSE line))

\* CollapseMarkers with the markers after the first left in place
CollapseNoMarker(text, i, gc) == text

RECURSIVE CollapseMarkers(_, _, _)
CollapseMarkers(text, i, gc) ==
    IF i > gc THEN text
    ELSE CollapseMarkers(Replace(text, GroundMarker(i), <<"0", "x">>), i + 1, gc)

\* renumber_grounds: [text, single]
RenumberGrounds(text, hp, pd) ==
    IF text = <<>> THEN [text |-> text, single |-> TRUE]
    ELSE LET single == SingleGround(text, hp, pd)
             m == MarkGroundLines(SplitChar(text, NL), 1, 0, <<>>)
             marked == Join(m.lines, sNL)
         IN  [text |-> IF single
                       THEN CollapseMarkers(Replace(marked, GroundMarker(1), <<"0", "x">>),
                                            2, m.gc)
                       ELSE marked,
              single |-> single]

\* a node field that the scan of renumber_nodes skips
IsMarkedOrGround(node) == HasChar(node, "x") \/ node = sZero \/ StartsWith(node, sZeroUnd)

\* the unmarked node fields of one statement, in slot order
UnmarkedOfLine(line) ==
    LET parts == SplitWS(line) IN
    IF IsBlank(line) \/ Len(parts) < 3 THEN <<>>
    ELSE LET positions == NodePositions(parts)
             fields == [i \in 1..Len(positions) |->
                           IF positions[i] <= Len(parts)
                           THEN RStripChar(parts[positions[i]], SEMI) ELSE sX]
         IN  SelectSeq(fields, LAMBDA f : ~IsMarkedOrGround(f))

\* step 1 of the loop: the first unmarked node in scan order, or <<>> (as a 0/1-tuple)
RECURSIVE FirstUnmarkedFrom(_, _)
FirstUnmarkedFrom(lines, i) ==
    IF i > Len(lines) THEN <<>>
    ELSE LET u == UnmarkedOfLine(lines[i]) IN
         IF Len(u) > 0 THEN <<u[1]>> ELSE FirstUnmarkedFrom(lines, i + 1)

FirstUnmarked(text) == FirstUnmarkedFrom(SplitChar(text, NL), 1)

\* RenameInLine that renames the first field of the statement that holds
\* node and leaves a second one
RenameFirstInLine(line, node, newNode) ==
    LET parts == SplitWS(line) IN
    IF IsBlank(line) \/ Len(parts) < 3 THEN line
    ELSE LET positions == NodePositions(parts)
             hit(p) == /\ \E i \in 1..Len(positions) : positions[i] = p
                       /\ RStripChar(parts[p], SEMI) = node
             first(p) == hit(p) /\ \A q \in 1..(p - 1) : ~hit(q)
             newParts == [p \in 1..Len(parts) |->
                            IF first(p)
                            THEN newNode \o (IF EndsWith(parts[p], sSemi) THEN sSemi ELSE <<>>)
                            ELSE parts[p]]
         IN  IF \E p \in 1..Len(parts) : hit(p) THEN Join(newParts, sSpace) ELSE line

\* step 2: replace node by newNode in the node positions of one statement
RenameInLine(line, node, newNode) ==
    LET parts == SplitWS(line) IN
    IF IsBlank(line) \/ Len(parts) < 3 THEN line
    ELSE LET positions == NodePositions(parts)
             hit(p) == /\ \E i \in 1..Len(positions) : positions[i] = p
                       /\ RStripChar(parts[p], SEMI) = node
             newParts == [p \in 1..Len(parts) |->
                            IF hit(p)
                            THEN newNode \o (IF EndsWith(parts[p], sSemi) THEN sSemi ELSE <<>>)
                            ELSE parts[p]]
         IN  IF \E p \in 1..Len(parts) : hit(p) THEN Join(newParts, sSpace) ELSE line

RenameInText(text, node, newNode) ==
    LET lines == SplitChar(text, NL)
    IN  Join([i \in 1..Len(lines) |-> RenameInLine(lines[i], node, newNode)], sNL)

\* step 3: every coordinate whose value is node becomes newNode
RenameInDict(d, node, newNode) ==
    [i \in 1..Len(d) |-> IF d[i].v.s = node THEN [k |-> d[i].k, v |-> StrId(newNode)] ELSE d[i]]

\* the while loop of renumber_nodes, from next_node_num = n
RECURSIVE RenumberLoop(_, _, _)
RenumberLoop(text, d, n) ==
    LET u == FirstUnmarked(text) IN
    IF u = <<>> THEN [text |-> text, dict |-> d, passes |-> n - 1]
    ELSE LET newNode == IntToStr(n) \o sX
         IN  RenumberLoop(RenameInText(text, u[1], newNode), RenameInDict(d, u[1], newNode), n + 1)

\* renumber_nodes(netlist, skip_grounds=True, nodes_dict)
RenumberNodes(text, d) ==
    IF text = <<>> THEN [text |-> text, dict |-> d, passes |-> 0] ELSE RenumberLoop(text, d, 1)

\* step 3 of renumber_nodes_for_drawing on one dict value
CleanId(v) ==
    LET cleaned == Replace(v.s, sX, <<>>)
    IN  IF IsDigitStr(cleaned) THEN IntId(StrToInt(cleaned)) ELSE StrId(cleaned)

\* renumber_nodes_for_drawing: [text, dict]
RenumberNodesForDrawing(text, d, hp, pd) ==
    IF text = <<>> THEN [text |-> <<>>, dict |-> d]
    ELSE LET g == RenumberGrounds(text, hp, pd)
             r == RenumberNodes(g.text, d)
         IN  [text |-> Replace(r.text, sX, <<>>),
              dict |-> [i \in 1..Len(r.dict) |-> [k |-> r.dict[i].k, v |-> CleanId(r.dict[i].v)]]]

\* ReorientLine that rewrites the direction and leaves the node fields in place
ReorientFlipOnly(line) ==
    IF ~HasChar(line, SEMI) \/ ~(line[1] \in {"W", "R", "L", "C"}) THEN line
    ELSE LET k == FirstIndex(line, SEMI)
             direction == Strip(Slice(line, k + 1, Len(line)))
         IN  IF direction \in {sLeft, sUp}
             THEN Slice(line, 1, k - 1) \o <<";", " ">>
                  \o (IF direction = sLeft THEN sRight ELSE sDown)
             ELSE line

\* ReorientLine that swaps the node fields and leaves the direction in place
ReorientSwapOnly(line) ==
    IF ~HasChar(line, SEMI) \/ ~(line[1] \in {"W", "R", "L", "C"}) THEN line
    ELSE LET k == FirstIndex(line, SEMI)
             mainParts == SplitWS(Slice(line, 1, k - 1))
             direction == Strip(Slice(line, k + 1, Len(line)))
         IN  IF direction \in {sLeft, sUp} /\ Len(mainParts) >= 3
             THEN Join([i \in 1..Len(mainParts) |->
                           IF i = 2 THEN mainParts[3]
                           ELSE IF i = 3 THEN mainParts[2] ELSE mainParts[i]], sSpace)
                  \o <<";", " ">> \o direction
             ELSE line

\* reorient_rlc on one statement
ReorientLine(line) ==
    LET parts == SplitWS(line) IN
    IF Len(parts) < 3 THEN line
    ELSE IF ~(\/ StartsWith(parts[1], sW) \/ StartsWith(parts[1], sR)
              \/ StartsWith(parts[1], sL) \/ StartsWith(parts[1], sC))
         THEN line
    ELSE IF ~HasChar(line, SEMI) THEN line
    ELSE LET k == FirstIndex(line, SEMI)
             mainParts == SplitWS(Slice(line, 1, k - 1))
             direction == Strip(Slice(line, k + 1, Len(line)))
         IN  IF direction \in {sLeft, sUp} /\ Len(mainParts) >= 3
             THEN Join([i \in 1..Len(mainParts) |->
                           IF i = 2 THEN mainParts[3]
                           ELSE IF i = 3 THEN mainParts[2] ELSE mainParts[i]], sSpace)
                  \o <<";", " ">> \o (IF direction = sLeft THEN sRight ELSE sDown)
             ELSE line

\* reorient_rlc
ReorientRlc(text) ==
    IF text = <<>> THEN text
    ELSE LET lines == SelectSeq(SplitChar(Strip(text), NL), LAMBDA l : ~IsBlank(l))
         IN  Join([i \in 1..Len(lines) |-> ReorientLine(lines[i])], sNL) \o sNL


-----------------------------------------------------------------------------
(* components.py *)

\* node_key: the text f"{x:04d}_{y:04d}" is one-to-one on coordinates, so the
\* key is kept as the coordinate pair
NodeKey(x, y) == <<x, y>>

RotatePoint(x, y, direction) ==
    CASE direction = "down" -> <<x, y>>
      [] direction = "left" -> <<0 - y, x>>
      [] direction = "up" -> <<0 - x, 0 - y>>
      [] direction = "right" -> <<y, 0 - x>>
      [] OTHER -> <<x, y>>

PinNode(d, x, y, pin, direction) ==
    LET r == RotatePoint(pin[1], pin[2], direction)
    IN  DictGet(d, NodeKey(x + r[1], y + r[2]), Unknown)

\* match_opamp_nodes
MatchOpampNodes(d, x, y, direction) ==
    [in_minus |-> PinNode(d, x, y, <<-32, -16>>, direction),
     in_plus |-> PinNode(d, x, y, <<-32, 16>>, direction),
     out |-> PinNode(d, x, y, <<32, 0>>, direction),
     vcc |-> PinNode(d, x, y, <<0, -32>>, direction),
     vee |-> PinNode(d, x, y, <<0, 32>>, direction)]

\* match_simple_opamp_nodes
MatchSimpleOpampNodes(d, x, y, direction) ==
    [in_plus |-> PinNode(d, x, y, <<-32, 48>>, direction),
     in_minus |-> PinNode(d, x, y, <<-32, 80>>, direction),
     out |-> PinNode(d, x, y, <<32, 64>>, direction)]

\* the x_offset, y_offset, length of a configured two-terminal kind (<<>> when
\* the kind has no entry); the values are those of component_offsets
TwoTermConfig(kind) ==
    CASE kind = "res" -> <<16, 16, 96>>
      [] kind = "cap" -> <<16, 0, 64>>
      [] kind = "ind" -> <<16, 16, 96>>
      [] kind = "voltage" -> <<0, 16, 96>>
      [] kind = "current" -> <<0, 0, 80>>
      [] OTHER -> <<>>

\* match_node with terminal 1 of a component turned left taken by the
\* convention of the opposite quarter turn
MatchNodeMixed(d, x, y, kind, direction) ==
    LET cfg == TwoTermConfig(kind) IN
    IF cfg # <<>>
    THEN LET xo == cfg[1]
             yo == cfg[2]
             ln == cfg[3]
             p == CASE direction = "right" -> <<x + yo, y - xo, x + ln, y - xo>>
                    [] direction = "up" -> <<x - xo, y - yo, x - xo, y - ln>>
                    [] direction = "left" -> <<x + yo, y - xo, x - ln, y + xo>>
                    [] OTHER -> <<x + xo, y + yo, x + xo, y + ln>>
         IN  [n1 |-> DictGet(d, NodeKey(p[1], p[2]), Unknown),
              n2 |-> DictGet(d, NodeKey(p[3], p[4]), Unknown)]
    ELSE [n1 |-> DictGet(d, NodeKey(x, y), Unknown), n2 |-> Unknown]

\* match_node for the two-terminal kinds: [n1, n2]
MatchNode(d, x, y, kind, direction) ==
    LET cfg == TwoTermConfig(kind) IN
    IF cfg # <<>>
    THEN LET xo == cfg[1]
             yo == cfg[2]
             ln == cfg[3]
             p == CASE direction = "right" -> <<x + yo, y - xo, x + ln, y - xo>>
                    [] direction = "up" -> <<x - xo, y - yo, x - xo, y - ln>>
                    [] direction = "left" -> <<x - yo, y + xo, x - ln, y + xo>>
                    [] OTHER -> <<x + xo, y + yo, x + xo, y + ln>>
         IN  [n1 |-> DictGet(d, NodeKey(p[1], p[2]), Unknown),
              n2 |-> DictGet(d, NodeKey(p[3], p[4]), Unknown)]
    ELSE LET off == CASE direction = "down" -> <<0, 16>>
                      [] direction = "left" -> <<-16, 0>>
                      [] direction = "up" -> <<0, -16>>
                      [] OTHER -> <<16, 0>>
         IN  [n1 |-> DictGet(d, NodeKey(x, y), Unknown),
              n2 |-> DictGet(d, NodeKey(x + off[1], y + off[2]), Unknown)]

-----------------------------------------------------------------------------
(* nodes.py *)

IsInt(v) == v.int
IntOf(v) == StrToInt(v.s)

MaxOf(S, default) == IF S = {} THEN default ELSE CHOOSE m \in S : \A k \in S : k <= m

\* add_node; name is <<>> for name=False, <<id>> otherwise
AddNode(d, x, y, name) ==
    IF DictHas(d, NodeKey(x, y)) THEN d
    ELSE IF name # <<>> THEN DictSet(d, NodeKey(x, y), name[1])
    ELSE DictSet(d, NodeKey(x, y),
                 IntId(MaxOf({IntOf(d[i].v) : i \in {j \in 1..Len(d) : IsInt(d[j].v)}}, 0) + 1))

\* the order of Python's sorted() on node values of type str
CharCode(c) ==
    IF IsDigitChar(c) THEN 48 + DigitVal(c) ELSE IF c = "?" THEN 63 ELSE IF c = "_" THEN 95 ELSE 120

RECURSIVE StrLess(_, _)
StrLess(a, b) ==
    IF b = <<>> THEN FALSE
    ELSE IF a = <<>> THEN TRUE
    ELSE IF a[1] # b[1] THEN CharCode(a[1]) < CharCode(b[1])
    ELSE StrLess(Tail(a), Tail(b))

\* the sort key (isinstance(v, str), v)
ValueLess(v, w) ==
    IF v.int # w.int THEN v.int
    ELSE IF v.int THEN IntOf(v) < IntOf(w)
    ELSE StrLess(v.s, w.s)

\* sort_nodes: a stable sort of the items by value
RECURSIVE SortNodes(_)
SortNodes(d) ==
    IF d = <<>> THEN <<>>
    ELSE LET i == CHOOSE j \in 1..Len(d) :
                      /\ \A k \in 1..Len(d) : ~ValueLess(d[k].v, d[j].v)
                      /\ \A k \in 1..(j - 1) : ValueLess(d[j].v, d[k].v)
         IN  <<d[i]>> \o SortNodes([k \in 1..(Len(d) - 1) |-> IF k < i THEN d[k] ELSE d[k + 1]])

\* the FLAG items make_nodes_from_wires reads from one record: all the FLAG
\* items of a WIRE list, the first item of a list that starts with a FLAG
FlagsRead(rec) ==
    IF rec.tag = "WIRE" THEN SelectSeq(rec.items, LAMBDA it : it.tag = "FLAG")
    ELSE IF rec.tag = "GROUP" /\ Len(rec.items) > 0 /\ rec.items[1].tag = "FLAG"
         THEN <<rec.items[1]>>
    ELSE <<>>

FlagsReadAll(pd) == Cat([i \in 1..Len(pd) |-> FlagsRead(pd[i])])

GroundName(k) == StrId(sZeroUnd \o IntToStr(k))

\* step 2 of make_nodes_from_wires; gm is ground_map as a sequence of locations
RECURSIVE AddFlagNodes(_, _, _, _, _)
AddFlagNodes(fl, i, single, gm, d) ==
    IF i > Len(fl) THEN d
    ELSE LET f == fl[i]
             loc == <<f.x, f.y>>
         IN  IF ~IsGroundLabel(f.val)
             THEN AddFlagNodes(fl, i + 1, single, gm, AddNode(d, f.x, f.y, <<>>))
             ELSE IF single
             THEN AddFlagNodes(fl, i + 1, single, gm, AddNode(d, f.x, f.y, <<IntId(0)>>))
             ELSE LET gm2 == IF \E k \in 1..Len(gm) : gm[k] = loc THEN gm ELSE Append(gm, loc)
                      k == CHOOSE j \in 1..Len(gm2) : gm2[j] = loc
                  IN  AddFlagNodes(fl, i + 1, single, gm2,
                                   AddNode(d, f.x, f.y, <<GroundName(k)>>))

\* step 3 of make_nodes_from_wires
RECURSIVE AddWireNodes(_, _, _)
AddWireNodes(pd, i, d) ==
    IF i > Len(pd) THEN d
    ELSE IF pd[i].tag # "WIRE" THEN AddWireNodes(pd, i + 1, d)
    ELSE AddWireNodes(pd, i + 1,
             AddNode(AddNode(d, pd[i].c[1], pd[i].c[2], <<>>), pd[i].c[3], pd[i].c[4], <<>>))

\* make_nodes_from_wires that keeps the map it finds
MakeNodesKeepingOld(old, pd) ==
    LET fl == FlagsReadAll(pd)
        grounds == {<<fl[i].x, fl[i].y>> : i \in {j \in 1..Len(fl) : IsGroundLabel(fl[j].val)}}
    IN  AddWireNodes(pd, 1, AddFlagNodes(fl, 1, Cardinality(grounds) <= 1, <<>>, old))

\* make_nodes_from_wires; old is self.nodes before the call
MakeNodesFromWires(old, pd) ==
    LET reset == <<>>
        fl == FlagsReadAll(pd)
        grounds == {<<fl[i].x, fl[i].y>> : i \in {j \in 1..Len(fl) : IsGroundLabel(fl[j].val)}}
    IN  AddWireNodes(pd, 1, AddFlagNodes(fl, 1, Cardinality(grounds) <= 1, <<>>, reset))

\* the keys of the wire graph, in the order add_edge inserts them
RECURSIVE WireKeys(_, _, _)
WireKeys(pd, i, acc) ==
    IF i > Len(pd) THEN acc
    ELSE IF pd[i].tag # "WIRE" THEN WireKeys(pd, i + 1, acc)
    ELSE LET k1 == NodeKey(pd[i].c[1], pd[i].c[2])
             k2 == NodeKey(pd[i].c[3], pd[i].c[4])
             a1 == IF \E j \in 1..Len(acc) : acc[j] = k1 THEN acc ELSE Append(acc, k1)
             a2 == IF \E j \in 1..Len(a1) : a1[j] = k2 THEN a1 ELSE Append(a1, k2)
         IN  WireKeys(pd, i + 1, a2)

WireEdges(pd) ==
    {{NodeKey(pd[i].c[1], pd[i].c[2]), NodeKey(pd[i].c[3], pd[i].c[4])} :
        i \in {j \in 1..Len(pd) : pd[j].tag = "WIRE"}}

\* the connected component of a set of keys
RECURSIVE Component(_, _)
Component(S, edges) ==
    LET T == S \cup UNION {e \in edges : e \cap S # {}}
    IN  IF T = S THEN S ELSE Component(T, edges)

\* nx.connected_components: the components in the order of their first key
RECURSIVE Nets(_, _, _, _)
Nets(keys, i, edges, acc) ==
    IF i > Len(keys) THEN acc
    ELSE IF \E n \in 1..Len(acc) : keys[i] \in acc[n] THEN Nets(keys, i + 1, edges, acc)
    ELSE Nets(keys, i + 1, edges, Append(acc, Component({keys[i]}, edges)))

\* _is_ground_value
IsGroundValue(v) == IF v.int THEN IntOf(v) = 0 ELSE v.s = sZero \/ StartsWith(v.s, sZeroUnd)

KeyLess(a, b) == a[1] < b[1] \/ (a[1] = b[1] /\ a[2] < b[2])

\* the first key a loop over a Python set of keys meets; the order of a set of
\* str depends on the hash seed of the process, kept here as two orders
FirstInSetOrder(S, seed) ==
    IF seed = "ascending" THEN CHOOSE k \in S : \A m \in S : m = k \/ KeyLess(k, m)
    ELSE CHOOSE k \in S : \A m \in S : m = k \/ KeyLess(m, k)

\* extract_nets: net_map as a dict; d is self.nodes
RECURSIVE NetMap(_, _, _, _, _, _)
NetMap(nets, i, d, seed, netNum, acc) ==
    IF i > Len(nets) THEN acc
    ELSE LET gk == {k \in nets[i] : DictHas(d, k) /\ IsGroundValue(DictGet(d, k, Unknown))}
         IN  IF gk # {}
             THEN NetMap(nets, i + 1, d, seed, netNum,
                         acc \cup {[k |-> k, v |-> DictGet(d, FirstInSetOrder(gk, seed), Unknown)] :
                                      k \in nets[i]})
             ELSE NetMap(nets, i + 1, d, seed, netNum + 1,
                         acc \cup {[k |-> k, v |-> IntId(netNum)] : k \in nets[i]})

ExtractNets(d, pd, seed) ==
    NetMap(Nets(WireKeys(pd, 1, <<>>), 1, WireEdges(pd), <<>>), 1, d, seed, 1, {})

\* make_nodes_with_net_extraction
MakeNodesWithNetExtraction(old, pd, seed) ==
    LET d == MakeNodesFromWires(old, pd)
        nm == ExtractNets(d, pd, seed)
    IN  [i \in 1..Len(d) |->
            IF \E e \in nm : e.k = d[i].k
            THEN [k |-> d[i].k, v |-> (CHOOSE e \in nm : e.k = d[i].k).v]
            ELSE d[i]]

-----------------------------------------------------------------------------
(* Netlist statements, as NetlistGenerator writes them (netlist.py, the     *)
(* f-strings of wire_to_netlist and symbol_to_netlist)                      *)

Stmt(kind, name, n, val, dir) == [kind |-> kind, name |-> name, n |-> n, val |-> val, dir |-> dir]

DirSuffix(dir) == IF dir = <<>> THEN <<>> ELSE <<";", " ">> \o dir

\* one statement as text, without its newline
RenderStmt(st) ==
    IF st.kind = "opamp"
    THEN Join(<<st.name, st.n[1], st.n[2], sOpamp, st.n[3], st.n[4]>>, sSpace)
    ELSE IF st.kind \in {"wire", "meter"}
         THEN Join(<<st.name, st.n[1], st.n[2]>>, sSpace) \o DirSuffix(st.dir)
    ELSE Join(<<st.name, st.n[1], st.n[2], st.val>>, sSpace) \o DirSuffix(st.dir)

RenderNetlist(ss) == Cat([i \in 1..Len(ss) |-> RenderStmt(ss[i]) \o sNL])

\* the place (1-based part index) of node slot j in the statement's text
SlotPos(st, j) == IF st.kind = "opamp" THEN <<2, 3, 5, 6>>[j] ELSE j + 1

\* the text of node slot j of line i of a netlist text ("#" when the line has no such part)
FieldOf(text, i, pos) ==
    LET lines == SplitChar(text, NL)
        parts == IF i <= Len(lines) THEN SplitWS(lines[i]) ELSE <<>>
    IN  IF pos <= Len(parts) THEN RStripChar(parts[pos], SEMI) ELSE <<"#">>

\* all the node slots of a statement list, as <<line, slot>>
Slots(ss) == {<<i, j>> : i \in 1..Len(ss), j \in 1..4} \cap
             {p \in (1..Len(ss)) \X (1..4) : p[2] <= Len(ss[p[1]].n)}

\* a ground token: bare 0, or a split ground 0_k
IsSplitGround(t) == Len(t) >= 3 /\ StartsWith(t, sZeroUnd) /\ IsDigitStr(Slice(t, 3, Len(t)))
IsGroundToken(t) == t = sZero \/ IsSplitGround(t)

-----------------------------------------------------------------------------
(* transformations.py: convert_named_nodes_to_numbers *)

\* the distinct str values other than "0", in dict order
RECURSIVE NamedNodes(_, _, _)
NamedNodes(d, i, acc) ==
    IF i > Len(d) THEN acc
    ELSE IF ~d[i].v.int /\ d[i].v.s # sZero /\ ~(\E j \in 1..Len(acc) : acc[j] = d[i].v.s)
         THEN NamedNodes(d, i + 1, Append(acc, d[i].v.s))
    ELSE NamedNodes(d, i + 1, acc)

RECURSIVE ReplaceNames(_, _, _, _)
ReplaceNames(text, names, i, maxNode) ==
    IF i > Len(names) THEN text
    ELSE LET old == names[i]
             new == IntToStr(maxNode + i)
             r1 == Replace(text, sSpace \o old \o sSemi, sSpace \o new \o sSemi)
             r2 == Replace(r1, sSpace \o old \o sSpace, sSpace \o new \o sSpace)
             r3 == Replace(r2, sSpace \o old \o sNL, sSpace \o new \o sNL)
         IN  ReplaceNames(r3, names, i + 1, maxNode)

\* convert_named_nodes_to_numbers: [text, dict], the dict a new object
ConvertNamedNodesToNumbers(text, d) ==
    LET maxNode == MaxOf({IntOf(d[i].v) : i \in {j \in 1..Len(d) : d[j].v.int}} \ {0}, 0)
        names == NamedNodes(d, 1, <<>>)
    IN  [text |-> ReplaceNames(text, names, 1, maxNode),
         dict |-> [i \in 1..Len(d) |->
                      IF ~d[i].v.int /\ (\E j \in 1..Len(names) : names[j] = d[i].v.s)
                      THEN [k |-> d[i].k,
                            v |-> IntId(maxNode + (CHOOSE j \in 1..Len(names) : names[j] = d[i].v.s))]
                      ELSE d[i]]]

-----------------------------------------------------------------------------
(* netlist.py: ports *)

\* extract_iopins_and_flags: the IOPIN coordinates in order
Iopins(pd) ==
    LET recs == SelectSeq(pd, LAMBDA r : r.tag = "IOPIN") IN [i \in 1..Len(recs) |-> recs[i].c]

\* extract_iopins_and_flags: the FLAG labels by coordinate; a standalone FLAG
\* list, or the FLAG items of any longer list
RECURSIVE FlagLabels(_, _, _)
FlagLabels(fl, i, acc) ==
    IF i > Len(fl) THEN acc
    ELSE FlagLabels(fl, i + 1, DictSet(acc, <<fl[i].x, fl[i].y>>, fl[i].val))

FlagsOfRecord(rec) ==
    IF rec.tag = "IOPIN" THEN <<>> ELSE SelectSeq(rec.items, LAMBDA it : it.tag = "FLAG")

PortFlags(pd) == FlagLabels(Cat([i \in 1..Len(pd) |-> FlagsOfRecord(pd[i])]), 1, <<>>)

\* ensure_iopin_nodes: [ok, dict]; max() of no value raises ValueError
RECURSIVE EnsureIopinNodes(_, _, _)
EnsureIopinNodes(io, i, d) ==
    IF i > Len(io) THEN [ok |-> TRUE, dict |-> d]
    ELSE IF DictHas(d, NodeKey(io[i][1], io[i][2])) THEN EnsureIopinNodes(io, i + 1, d)
    ELSE IF d = <<>>
         THEN EnsureIopinNodes(io, i + 1, DictSet(d, NodeKey(io[i][1], io[i][2]), IntId(1)))
    ELSE LET pos == {IntOf(d[j].v) : j \in {m \in 1..Len(d) : d[m].v.int}} \ {0}
         IN  IF pos = {} THEN [ok |-> FALSE, dict |-> d]
             ELSE EnsureIopinNodes(io, i + 1,
                      DictSet(d, NodeKey(io[i][1], io[i][2]), IntId(MaxOf(pos, 0) + 1)))

sPortHead == <<"P">>
sPortTail == <<" ", "0", ";", " ", "d", "o", "w", "n", ",", " ", "v", "=">>
sPortTailMinimal == <<" ", "0", ";", " ", "v", "=">>
sPortLabel == <<"P", "O", "R", "T", "_">>

\* generate_port_definitions, each definition followed by its newline
RECURSIVE PortDefinitions(_, _, _, _, _)
PortDefinitions(io, i, flags, d, minimal) ==
    IF i > Len(io) THEN <<>>
    ELSE LET coord == <<io[i][1], io[i][2]>>
             label == IF DictHas(flags, coord) THEN DictGet(flags, coord, <<>>)
                      ELSE sPortLabel \o IntToStr(coord[1]) \o <<"_">> \o IntToStr(coord[2])
         IN  (IF ~DictHas(d, NodeKey(coord[1], coord[2])) THEN <<>>
              ELSE sPortHead \o IntToStr(i) \o sSpace \o DictGet(d, NodeKey(coord[1], coord[2]), Unknown).s
                   \o (IF minimal THEN sPortTailMinimal ELSE sPortTail) \o label \o sNL)
             \o PortDefinitions(io, i + 1, flags, d, minimal)

-----------------------------------------------------------------------------
(* netlist.py: NetlistGenerator *)

\* direction_map
DirectionMap(rot) ==
    CASE rot \in {"R", "R0"} -> "down"
      [] rot = "R90" -> "left"
      [] rot = "R180" -> "up"
      [] rot = "R270" -> "right"
      [] OTHER -> rot

DirText(direction) ==
    CASE direction = "down" -> sDown
      [] direction = "left" -> sLeft
      [] direction = "up" -> sUp
      [] direction = "right" -> sRight
      [] OTHER -> <<>>

Abs(n) == IF n < 0 THEN 0 - n ELSE n

\* wire_to_netlist that takes a wire with |dx| = |dy| as horizontal
WireToNetlistTiesAcross(d, rec, o) ==
    LET dx == rec.c[3] - rec.c[1]
        dy == rec.c[4] - rec.c[2]
        direction == IF Abs(dx) >= Abs(dy) THEN (IF dx > 0 THEN "right" ELSE "left")
                     ELSE (IF dy > 0 THEN "down" ELSE "up")
        n1 == DictGet(d, NodeKey(rec.c[1], rec.c[2]), Unknown).s
        n2 == DictGet(d, NodeKey(rec.c[3], rec.c[4]), Unknown).s
        swap == direction \in {"up", "left"}
        d2 == IF direction = "up" THEN "down" ELSE IF direction = "left" THEN "right" ELSE direction
    IN  Stmt("wire", sW, IF swap THEN <<n2, n1>> ELSE <<n1, n2>>, <<>>,
             IF o.minimal /\ ~o.directions THEN <<>> ELSE DirText(d2))

\* wire_to_netlist: the statement of a WIRE record, with its direction when
\* minimal and include_directions are both off, or include_directions is on
WireToNetlist(d, rec, o) ==
    LET dx == rec.c[3] - rec.c[1]
        dy == rec.c[4] - rec.c[2]
        direction == IF Abs(dx) > Abs(dy) THEN (IF dx > 0 THEN "right" ELSE "left")
                     ELSE (IF dy > 0 THEN "down" ELSE "up")
        n1 == DictGet(d, NodeKey(rec.c[1], rec.c[2]), Unknown).s
        n2 == DictGet(d, NodeKey(rec.c[3], rec.c[4]), Unknown).s
        swap == direction \in {"up", "left"}
        d2 == IF direction = "up" THEN "down" ELSE IF direction = "left" THEN "right" ELSE direction
        suffix == IF ~o.minimal /\ ~o.directions THEN DirText(d2)
                  ELSE IF o.directions THEN DirText(d2)
                  ELSE <<>>
    IN  Stmt("wire", sW, IF swap THEN <<n2, n1>> ELSE <<n1, n2>>, <<>>, suffix)

\* attributes.get(name, default) over the SYMATTR items of a group
RECURSIVE AttrOf(_, _, _, _)
AttrOf(items, i, name, acc) ==
    IF i > Len(items) THEN acc
    ELSE AttrOf(items, i + 1, name,
                IF items[i].tag = "SYMATTR" /\ items[i].name = name THEN Strip(items[i].val) ELSE acc)

UpperLetters ==
    {"A", "B", "C", "D", "E", "F", "G", "H", "I", "J", "K", "L", "M",
     "N", "O", "P", "Q", "R", "S", "T", "U", "V", "W", "X", "Y", "Z"}

\* the index of the first character of s that is no upper-case letter
RECURSIVE LettersEnd(_, _)
LettersEnd(s, i) == IF i <= Len(s) /\ s[i] \in UpperLetters THEN LettersEnd(s, i + 1) ELSE i

\* apply_netlist_prefix: the op-amp kinds carry the netlist prefix E
ApplyNetlistPrefix(inst, kind) ==
    LET k == LettersEnd(inst, 1) IN
    IF kind \in {"opamp", "Opamps/UniversalOpamp2"} /\ k > 1 /\ IsDigitStr(Slice(inst, k, Len(inst)))
    THEN sE \o Slice(inst, k, Len(inst))
    ELSE inst

sK == <<"k">>

\* _parse_prefixed_value and the f-string of its float, for the values of this
\* model: unsigned whole numbers with an optional k (no other value is parsed)
MagnitudeText(raw) ==
    IF IsDigitStr(raw) THEN IntToStr(StrToInt(raw)) \o <<".", "0">>
    ELSE IF Len(raw) > 1 /\ IsDigitStr(Slice(raw, 1, Len(raw) - 1)) /\ raw[Len(raw)] = "k"
         THEN IntToStr(1000 * StrToInt(Slice(raw, 1, Len(raw) - 1))) \o <<".", "0">>
    ELSE raw

sAM == <<"A", "M">>
sVM == <<"V", "M">>

\* symbol_to_netlist: [stmts, counters]; dm is the dict of the component
\* matcher, o the options of generate
SymbolToNetlist(dm, items, o, cnt) ==
    IF items[1].tag # "SYMBOL" THEN [stmts |-> <<>>, counters |-> cnt]
    ELSE
    LET sym == items[1]
        kind == sym.kind
        direction == DirectionMap(sym.rot)
        inst == AttrOf(items, 2, "InstName", sQ)
        value == AttrOf(items, 2, "Value", <<>>)
        dir == IF o.minimal THEN <<>> ELSE DirText(direction)
    IN  CASE kind = "Opamps/UniversalOpamp2" ->
               LET m == MatchOpampNodes(dm, sym.x, sym.y, direction)
               IN  [stmts |-> <<Stmt("opamp", ApplyNetlistPrefix(inst, kind),
                                     <<m.out.s, m.vee.s, m.in_plus.s, m.in_minus.s>>, <<>>, <<>>)>>,
                    counters |-> cnt]
          [] kind = "opamp" ->
               LET m == MatchSimpleOpampNodes(dm, sym.x, sym.y, direction)
               IN  [stmts |-> <<Stmt("opamp", ApplyNetlistPrefix(inst, kind),
                                     <<m.out.s, sZero, m.in_plus.s, m.in_minus.s>>, <<>>, <<>>)>>,
                    counters |-> cnt]
          [] kind \in {"res", "cap", "ind"} ->
               LET m == MatchNode(dm, sym.x, sym.y, kind, direction)
                   swap == direction \in {"left", "up"} /\ o.reorient
                   d2 == IF ~swap THEN direction ELSE IF direction = "left" THEN "right" ELSE "down"
               IN  [stmts |-> <<Stmt("valued", inst,
                                     IF swap THEN <<m.n2.s, m.n1.s>> ELSE <<m.n1.s, m.n2.s>>,
                                     MagnitudeText(value),
                                     IF o.minimal THEN <<>> ELSE DirText(d2))>>,
                    counters |-> cnt]
          [] kind = "ammeter" ->
               LET m == MatchNode(dm, sym.x, sym.y, kind, direction)
               IN  [stmts |-> <<Stmt("meter", sAM \o IntToStr(cnt.AM + 1),
                                     <<m.n1.s, m.n2.s>>, <<>>, dir)>>,
                    counters |-> [cnt EXCEPT !.AM = @ + 1]]
          [] kind = "voltmeter" ->
               LET m == MatchNode(dm, sym.x, sym.y, kind, direction)
               IN  [stmts |-> <<Stmt("meter", sVM \o IntToStr(cnt.VM + 1),
                                     <<m.n1.s, m.n2.s>>, <<>>, dir)>>,
                    counters |-> [cnt EXCEPT !.VM = @ + 1]]
          [] OTHER ->
               LET m == MatchNode(dm, sym.x, sym.y, kind, direction)
               IN  [stmts |-> <<Stmt("valued", inst, <<m.n1.s, m.n2.s>>, value, dir)>>,
                    counters |-> cnt]

\* the loop of generate over self.parsed: [stmts, counters]; wires read
\* self.nodes (dg), components read the matcher's dict (dm)
RECURSIVE EmitAll(_, _, _, _, _, _, _)
EmitAll(pd, i, dg, dm, o, cnt, acc) ==
    IF i > Len(pd) THEN [stmts |-> acc, counters |-> cnt]
    ELSE IF pd[i].tag = "WIRE"
         THEN EmitAll(pd, i + 1, dg, dm, o, cnt,
                      IF o.minimal THEN acc ELSE Append(acc, WireToNetlist(dg, pd[i], o)))
    ELSE IF pd[i].tag = "GROUP"
         THEN LET r == SymbolToNetlist(dm, pd[i].items, o, cnt)
              IN  EmitAll(pd, i + 1, dg, dm, o, r.counters, acc \o r.stmts)
    ELSE EmitAll(pd, i + 1, dg, dm, o, cnt, acc)

\* the text generate leaves in place of a result when it raises
Raised(what) == <<what>>

\* generate, the transformations in their order: reorient_rlc
ApplyReorient(t, o) == IF o.reorient /\ ~o.minimal THEN ReorientRlc(t) ELSE t

\* generate: convert_named_nodes_to_numbers, whose dict replaces self.nodes
ApplyConvert(t, dg, o) ==
    IF ~o.named THEN ConvertNamedNodesToNumbers(t, dg) ELSE [text |-> t, dict |-> dg]

\* generate: renumber_nodes_for_drawing on self.netlist and self.nodes
ApplyRenumber(c, pd, o) ==
    IF o.renumber THEN RenumberNodesForDrawing(c.text, c.dict, TRUE, pd) ELSE c

\* generate, after ensure_iopin_nodes (en): the port statements and the result
GeneratePorts(pd, dm, alias2, o, e, r, en, ports) ==
    [out |-> IF en.ok THEN r.text \o ports ELSE Raised("ValueError"),
     netlist |-> IF en.ok THEN r.text \o ports ELSE r.text,
     gnodes |-> en.dict,
     nodes |-> IF alias2 THEN en.dict ELSE dm,
     alias |-> alias2,
     counters |-> e.counters,
     stmts |-> e.stmts]

\* generate, after the transformations (r): ensure_iopin_nodes and the ports
GenerateTransformed(pd, dm, alias2, o, e, r, en) ==
    GeneratePorts(pd, dm, alias2, o, e, r, en,
                  PortDefinitions(Iopins(pd), 1, PortFlags(pd), en.dict, o.minimal))

\* generate, after the loop over self.parsed (e)
GenerateEmitted(pd, dg, dm, alias, o, e, r) ==
    GenerateTransformed(pd, dm, alias /\ o.named, o, e, r,
                        EnsureIopinNodes(Iopins(pd), 1, r.dict))

\* generate, the netlist text and self.nodes after the transformations
Transformed(pd, dg, o, e) ==
    ApplyRenumber(ApplyConvert(ApplyReorient(RenderNetlist(e.stmts), o), dg, o), pd, o)

\* generate, given the statements and counters of its loop (e)
GenerateFrom(pd, dg, dm, alias, o, e) ==
    GenerateEmitted(pd, dg, dm, alias, o, e, Transformed(pd, dg, o, e))

\* generate: the text returned (or the exception), self.nodes after the call,
\* whether self.nodes is still the dict the generator was built with and that
\* dict after the call, and the counters
Generate(pd, dg, dm, alias, cnt, o) ==
    GenerateFrom(pd, dg, dm, alias, o, EmitAll(pd, 1, dg, dm, o, cnt, <<>>))

-----------------------------------------------------------------------------
(* Bounds of the checked inputs *)

MaxStmts == 2
MaxNodeId == 2

sX2 == <<"x", "2">>

\* node tokens of the renumbering inputs: numbers, ground, and a node named x2
NodeTokens == {IntToStr(k) : k \in 1..MaxNodeId} \cup {sZero, sX2}

sR1 == <<"R", "1">>
sE1 == <<"E", "1">>
sV1 == <<"V", "1">>
sAM1 == <<"A", "M", "1">>
s1000 == <<"1", "0", "0", "0", ".", "0">>
sFive == <<"5">>

SeqsUpTo(S, n) == UNION {[1..k -> S] : k \in 0..n}

-----------------------------------------------------------------------------
(* Renumbering: renumber_nodes_for_drawing applied once, then to its output *)

\* wires from any node to ground or to node 1, and op-amp statements in the
\* three-pin form (second slot literal 0)
RenumStmts ==
    {Stmt("wire", sW, <<a, b>>, <<>>, sDown) : a \in NodeTokens, b \in {sZero, IntToStr(1)}}
    \cup {Stmt("opamp", sE1, <<IntToStr(2), sZero, a, IntToStr(1)>>, <<>>, <<>>) :
             a \in {IntToStr(1), sX2}}

G1 == <<0, 16>>
G2 == <<32, 16>>

\* parsed data of the transformation inputs: none, no flag, two ground flags at
\* one place (one standalone, one that parse() attached to a wire), two ground
\* flags at two places
RenumParsed ==
    { [hp |-> FALSE, pd |-> <<>>],
      [hp |-> TRUE, pd |-> <<Group(<<Flag(G1[1], G1[2], sZero)>>),
                             Wire(0, 0, G1[1], G1[2], <<Flag(G1[1], G1[2], sZero)>>)>>],
      [hp |-> TRUE, pd |-> <<Group(<<Flag(G1[1], G1[2], sZero)>>),
                             Group(<<Flag(G2[1], G2[2], sZero)>>)>>] }

Idle == /\ nodes = <<>> /\ gnodes = <<>> /\ galias = TRUE /\ hashSeed = "ascending"
        /\ counters = [AM |-> 0, VM |-> 0, BAT |-> 0]
        /\ opts = [op |-> "none"]

InitRenum ==
    /\ stmts \in SeqsUpTo(RenumStmts, MaxStmts)
    /\ netlist = RenderNetlist(stmts)
    /\ \E p \in RenumParsed : hasParsed = p.hp /\ parsed = p.pd
    /\ out = <<>> /\ hist = <<>> /\ pc = "start"
    /\ Idle

Renumber ==
    /\ pc = "start"
    /\ out' = RenumberNodesForDrawing(netlist, <<>>, hasParsed, parsed).text
    /\ pc' = "once"
    /\ UNCHANGED <<parsed, hasParsed, nodes, gnodes, galias, counters, opts, netlist, hist, stmts,
                   hashSeed>>

RenumberAgain ==
    /\ pc = "once"
    /\ hist' = Append(hist, out)
    /\ out' = RenumberNodesForDrawing(out, <<>>, hasParsed, parsed).text
    /\ pc' = "twice"
    /\ UNCHANGED <<parsed, hasParsed, nodes, gnodes, galias, counters, opts, netlist, stmts,
                   hashSeed>>

NextRenum == Renumber \/ RenumberAgain

SpecRenum == InitRenum /\ [][NextRenum]_vars

-----------------------------------------------------------------------------
(* Claims about renumber_nodes_for_drawing *)

\* every ground flag of the parsed data, wherever parse() put it
AllFlagsOf(pd) ==
    UNION {{pd[i].items[k] : k \in {m \in 1..Len(pd[i].items) : pd[i].items[m].tag = "FLAG"}} :
             i \in 1..Len(pd)}
GroundFlagCoords(pd) == {<<f.x, f.y>> : f \in {g \in AllFlagsOf(pd) : IsGroundLabel(g.val)}}

\* every whitespace-separated token of a text, ';' stripped
TokensOf(text) ==
    LET lines == SplitChar(text, NL)
    IN  UNION {{RStripChar(SplitWS(lines[i])[k], SEMI) : k \in 1..Len(SplitWS(lines[i]))} :
                 i \in 1..Len(lines)}

GroundSlots(ss) == {p \in Slots(ss) : ss[p[1]].n[p[2]] = sZero}
SignalSlots(ss) == {p \in Slots(ss) : ~IsGroundToken(ss[p[1]].n[p[2]])}
OutField(text, ss, p) == FieldOf(text, p[1], SlotPos(ss[p[1]], p[2]))

\* the place of slot p in the scan: statements top to bottom, slots left to right
ScanRank(p) == 4 * p[1] + p[2]
\* the place where id t first appears
FirstRank(ss, t) ==
    LET at == {ScanRank(q) : q \in {r \in SignalSlots(ss) : ss[r[1]].n[r[2]] = t}}
    IN  CHOOSE m \in at : \A k \in at : m <= k
\* the number of distinct signal ids that first appear no later than the id of slot p
FirstAppearanceNumber(ss, p) ==
    LET ids == {ss[q[1]].n[q[2]] : q \in SignalSlots(ss)}
    IN  Cardinality({u \in ids : FirstRank(ss, u) <= FirstRank(ss, ss[p[1]].n[p[2]])})

\* C3: when every ground flag of the parsed data is at one coordinate, every
\* node slot that held ground is still the bare 0 after
\* renumber_nodes_for_drawing, however many statements reference ground, and
\* no token 0_k appears in the result.
C3_OneGroundStaysBare ==
    (pc = "once" /\ hasParsed /\ Cardinality(GroundFlagCoords(parsed)) <= 1) =>
        /\ \A p \in GroundSlots(stmts) : OutField(out, stmts, p) = sZero
        /\ \A t \in TokensOf(out) : ~IsSplitGround(t)

C3_Witness ==
    /\ pc = "once" /\ hasParsed
    /\ Cardinality(GroundFlagCoords(parsed)) = 1
    /\ Cardinality(AllFlagsOf(parsed)) >= 1
    /\ Cardinality(GroundSlots(stmts)) >= 3
    /\ \A p \in GroundSlots(stmts) : OutField(out, stmts, p) = sZero

\* C4: renumber_nodes_for_drawing numbers the non-ground nodes by first
\* appearance, statements top to bottom and node slots left to right: every
\* non-ground slot holds the number of distinct non-ground ids seen up to it
\* (so the ids are exactly 1..n with increasing first occurrences), and every
\* ground slot holds a ground id, which consumes no signal number.
C4_FirstAppearanceNumbering ==
    pc = "once" =>
        /\ \A p \in SignalSlots(stmts) :
               OutField(out, stmts, p) = IntToStr(FirstAppearanceNumber(stmts, p))
        /\ \A p \in GroundSlots(stmts) : IsGroundToken(OutField(out, stmts, p))

\* C5: renumbering preserves node identity: two node slots hold the same id
\* after renumber_nodes_for_drawing exactly when they held the same id
\* before, whatever the node tokens are.
C5_IdentityPreserved ==
    pc = "once" =>
        \A p \in SignalSlots(stmts), q \in SignalSlots(stmts) :
            (stmts[p[1]].n[p[2]] = stmts[q[1]].n[q[2]])
                <=> (OutField(out, stmts, p) = OutField(out, stmts, q))

\* C6: renumber_nodes_for_drawing is idempotent: applied to its own output,
\* with the same parsed data, it returns that output unchanged.
C6_RenumberIdempotent ==
    pc = "twice" => out = hist[1]

-----------------------------------------------------------------------------
(* Reorientation: reorient_rlc applied once, then to its output *)

\* wires, resistors, voltage sources and ammeters in each of the four
\* directions, and a wire without a direction
ReorientStmts ==
    {Stmt("wire", sW, <<IntToStr(1), sZero>>, <<>>, d) : d \in {sLeft, sUp, sRight, sDown, <<>>}}
    \cup {Stmt("valued", sR1, <<IntToStr(1), sZero>>, s1000, d) : d \in {sLeft, sUp, sRight, sDown}}
    \cup {Stmt("valued", sV1, <<IntToStr(1), sZero>>, sFive, d) : d \in {sLeft, sUp, sRight, sDown}}
    \cup {Stmt("meter", sAM1, <<IntToStr(1), sZero>>, <<>>, d) : d \in {sLeft, sUp, sRight, sDown}}

InitReorient ==
    /\ stmts \in SeqsUpTo(ReorientStmts, MaxStmts)
    /\ netlist = RenderNetlist(stmts)
    /\ hasParsed = FALSE /\ parsed = <<>>
    /\ out = <<>> /\ hist = <<>> /\ pc = "start"
    /\ Idle

Reorient ==
    /\ pc = "start"
    /\ out' = ReorientRlc(netlist)
    /\ pc' = "once"
    /\ UNCHANGED <<parsed, hasParsed, nodes, gnodes, galias, counters, opts, netlist, hist, stmts,
                   hashSeed>>

ReorientAgain ==
    /\ pc = "once"
    /\ hist' = Append(hist, out)
    /\ out' = ReorientRlc(out)
    /\ pc' = "twice"
    /\ UNCHANGED <<parsed, hasParsed, nodes, gnodes, galias, counters, opts, netlist, stmts,
                   hashSeed>>

NextReorient == Reorient \/ ReorientAgain

SpecReorient == InitReorient /\ [][NextReorient]_vars

-----------------------------------------------------------------------------
(* Claims about reorient_rlc *)

LineOf(text, i) ==
    LET lines == SplitChar(text, NL) IN IF i <= Len(lines) THEN lines[i] ELSE <<"#">>

\* the statement with its two node fields swapped and its direction made canonical
Reoriented(st) ==
    [st EXCEPT !.n = <<st.n[2], st.n[1]>>, !.dir = IF st.dir = sLeft THEN sRight ELSE sDown]

IsRLCW(st) == st.name[1] \in {"W", "R", "L", "C"}

\* C7 as stated: every two-terminal statement going left or up, source and
\* meter statements included, comes back with its node fields swapped and its
\* direction right or down, name and value kept.
C7_EveryTwoTerminalReoriented ==
    pc = "once" =>
        \A i \in 1..Len(stmts) :
            stmts[i].dir \in {sLeft, sUp} => LineOf(out, i) = RenderStmt(Reoriented(stmts[i]))

\* C7, amended: a statement whose name begins with W, R, L or C and whose
\* direction is left or up comes back with its node fields swapped and its
\* direction right or down, name and value kept; every other statement, a
\* source or a meter going left or up included, comes back unchanged.
C7_OnlyRLCWReoriented ==
    pc = "once" =>
        \A i \in 1..Len(stmts) :
            LineOf(out, i) = IF IsRLCW(stmts[i]) /\ stmts[i].dir \in {sLeft, sUp}
                             THEN RenderStmt(Reoriented(stmts[i]))
                             ELSE RenderStmt(stmts[i])

C7_Witness ==
    /\ pc = "once"
    /\ \E i \in 1..Len(stmts), j \in 1..Len(stmts) :
          /\ stmts[i].name = sR1 /\ stmts[i].dir = sLeft
          /\ LineOf(out, i) = RenderStmt(Reoriented(stmts[i]))
          /\ stmts[j].name = sV1 /\ stmts[j].dir = sUp
          /\ LineOf(out, j) = RenderStmt(stmts[j])

IsCanonical(ss) == \A i \in 1..Len(ss) : ss[i].dir \in {sRight, sDown}

-----------------------------------------------------------------------------
(* The generator: NetlistGenerator built on the node map of the schematic,  *)
(* generate called once, then once more with the same options               *)

MaxRecords == 2

P0 == <<0, 0>>
P1 == <<32, 0>>

sA1 == <<"A", "1">>
sU1 == <<"U", "1">>
s1k == <<" ", "1", "k">>
sOut == <<"o", "u", "t">>

\* the records a schematic is made of: wires with the FLAG lines parse()
\* attached to them, standalone flags, an ammeter on the first wire, a
\* resistor and an op-amp with pins off the wires, a port
Records ==
    { Wire(P0[1], P0[2], G1[1], G1[2], <<Flag(G1[1], G1[2], sZero)>>),
      Wire(P0[1], P0[2], G1[1], G1[2], <<Flag(G1[1], G1[2], sZero), Flag(G2[1], G2[2], sZero)>>),
      Wire(P1[1], P1[2], G2[1], G2[2], <<Flag(G2[1], G2[2], sZero)>>),
      Wire(P1[1], P1[2], P0[1], P0[2], <<>>),
      Group(<<Flag(G2[1], G2[2], sZero)>>),
      Group(<<Flag(P0[1], P0[2], sOut)>>),
      Group(<<Symbol("ammeter", P0[1], P0[2], "R0"), Attr("InstName", sSpace \o sA1)>>),
      Group(<<Symbol("voltmeter", P1[1], P1[2], "R0"), Attr("InstName", sSpace \o sA1)>>),
      Group(<<Symbol("res", 16, -16, "R90"), Attr("InstName", sSpace \o sR1), Attr("Value", s1k)>>),
      Group(<<Symbol("opamp", 0, -48, "R0"), Attr("InstName", sSpace \o sU1)>>),
      IOPin(P0[1], P0[2]) }

Schematics == SeqsUpTo(Records, MaxRecords)

\* the options of generate
GenOptions ==
    [named : BOOLEAN, directions : BOOLEAN, minimal : BOOLEAN, reorient : BOOLEAN,
     renumber : BOOLEAN]

NoCounters == [AM |-> 0, VM |-> 0, BAT |-> 0]

InitGen ==
    /\ parsed \in Schematics
    /\ hasParsed = TRUE
    /\ nodes = MakeNodesFromWires(<<>>, parsed)
    /\ gnodes = nodes /\ galias = TRUE
    /\ counters = NoCounters
    /\ opts = [op |-> "none"]
    /\ netlist = <<>> /\ out = <<>> /\ hist = <<>> /\ stmts = <<>>
    /\ hashSeed = "ascending"
    /\ pc = "start"

GenerateStep(o) ==
    \E g \in {Generate(parsed, gnodes, nodes, galias, counters, o)} :
        /\ out' = g.out
        /\ netlist' = g.netlist
        /\ gnodes' = g.gnodes
        /\ nodes' = g.nodes
        /\ galias' = g.alias
        /\ counters' = g.counters
        /\ stmts' = g.stmts
        /\ opts' = o

GenerateFirst ==
    /\ pc = "start"
    /\ \E o \in GenOptions : GenerateStep(o)
    /\ pc' = "once"
    /\ UNCHANGED <<parsed, hasParsed, hist, hashSeed>>

GenerateSecond ==
    /\ pc = "once"
    /\ GenerateStep(opts)
    /\ hist' = Append(hist, out)
    /\ pc' = "twice"
    /\ UNCHANGED <<parsed, hasParsed, hashSeed>>

NextGen == GenerateFirst \/ GenerateSecond

SpecGen == InitGen /\ [][NextGen]_vars

-----------------------------------------------------------------------------
(* Claims about NetlistGenerator.generate *)

IsRaised(o) == o \in {Raised("ValueError"), Raised("TypeError")}

\* the node fields of one line of a netlist, read by the output grammar
\* <name> <node1> <node2> [opamp <node3> <node4>]
NodeFieldsOfLine(line) ==
    LET parts == SplitWS(line)
        pos == IF Len(parts) >= 6 /\ parts[4] = sOpamp THEN {2, 3, 5, 6}
               ELSE IF Len(parts) >= 3 THEN {2, 3} ELSE {}
    IN  {RStripChar(parts[k], SEMI) : k \in pos}

NodeFieldsOf(text) ==
    LET lines == SplitChar(text, NL)
    IN  UNION {NodeFieldsOfLine(lines[i]) : i \in 1..Len(lines)}

UnresolvedIn(st) == {j \in 1..Len(st.n) : st.n[j] = sQ}
UnresolvedOut(text, ss, i) == {j \in 1..Len(ss[i].n) : OutField(text, ss, <<i, j>>) = sQ}

\* C1: whatever the options of generate, a terminal or wire endpoint whose
\* coordinate is absent from the node map is written as ? in the returned
\* text: every statement is still there and holds as many ? node fields as it
\* has unresolved terminals.
C1_UnresolvedStaysSentinel ==
    (pc = "once" /\ ~IsRaised(out)) =>
        \A i \in 1..Len(stmts) :
            Cardinality(UnresolvedOut(out, stmts, i)) = Cardinality(UnresolvedIn(stmts[i]))

sGround1 == <<"0", "_", "1">>
sGround2 == <<"0", "_", "2">>

\* the node ids the generator resolved for the statements it wrote
ResolvedIds(ss) == UNION {{ss[i].n[j] : j \in 1..Len(ss[i].n)} : i \in 1..Len(ss)}

\* C2: when the ground flags of the schematic lie at two distinct coordinates
\* and terminals resolve to both of them, the text generate returns holds
\* the ground tokens 0_1 and 0_2 and no node field is the bare 0, whatever
\* use_named_nodes is and also with a 3-pin op-amp or a port.
C2_TwoGroundsNeverBare ==
    (/\ pc = "once" /\ ~IsRaised(out)
     /\ Cardinality(GroundFlagCoords(parsed)) = 2
     /\ {sGround1, sGround2} \subseteq ResolvedIds(stmts)) =>
        /\ {sGround1, sGround2} \subseteq NodeFieldsOf(out)
        /\ sZero \notin NodeFieldsOf(out)

\* C9: generate called twice on one generator with the same options returns
\* the same text both times.
C9_SecondCallSameText ==
    pc = "twice" => out = hist[1]

-----------------------------------------------------------------------------
(* LTspice.make_netlist called again and again on one parsed object *)

MaxCalls == 2

\* the keyword parameters of NetlistGenerator.generate
GenerateKeywords ==
    {"use_named_nodes", "include_directions", "minimal", "reorient_rlc", "renumber_nodes"}

\* the keywords make_netlist passes to generate
MakeNetlistPasses ==
    {"use_named_nodes", "include_wire_directions", "minimal", "use_net_extraction",
     "reorient_rlc", "renumber_nodes"}

\* make_netlist, the rebuilding of the node map of an object whose map is old
RebuildNodes(old, pd, seed, o) ==
    IF o.net THEN MakeNodesWithNetExtraction(old, pd, seed)
    ELSE SortNodes(MakeNodesFromWires(old, pd))

\* make_netlist, after generate returned g: the maps are kept in sync
MakeNetlistReturn(rebuilt, g) ==
    [nodes |-> g.gnodes, out |-> g.out, netlist |-> g.out, used |-> rebuilt]

\* make_netlist, the call of generate on a new generator over the rebuilt map
MakeNetlistGenerate(pd, text, o, rebuilt) ==
    IF MakeNetlistPasses \subseteq GenerateKeywords
    THEN MakeNetlistReturn(rebuilt,
                           Generate(pd, rebuilt, rebuilt, TRUE, NoCounters,
                                    [named |-> o.named, directions |-> TRUE, minimal |-> o.minimal,
                                     reorient |-> o.reorient, renumber |-> o.renumber]))
    ELSE [nodes |-> rebuilt, out |-> Raised("TypeError"), netlist |-> text, used |-> rebuilt]

\* make_netlist on an object whose node map is old: the node map after the
\* call, the text returned (or the exception), self.netlist, and the map
\* the generator was built with
MakeNetlist(old, pd, text, seed, o) ==
    MakeNetlistGenerate(pd, text, o, RebuildNodes(old, pd, seed, o))

\* the options of make_netlist that the calls vary; the others keep their defaults
MakeOptions ==
    {[named |-> TRUE, minimal |-> FALSE, reorient |-> TRUE, net |-> n, renumber |-> r] :
        n \in BOOLEAN, r \in BOOLEAN}

InitMake ==
    /\ parsed \in Schematics
    /\ hasParsed = TRUE
    /\ nodes = <<>> /\ gnodes = <<>> /\ galias = TRUE
    /\ counters = NoCounters
    /\ opts = [op |-> "none"]
    /\ netlist = <<>> /\ out = <<>> /\ hist = <<>> /\ stmts = <<>>
    /\ hashSeed \in {"ascending", "descending"}
    /\ pc = "parsed"

MakeNetlistCall ==
    /\ Len(hist) < MaxCalls
    /\ \E o \in MakeOptions :
          \E m \in {MakeNetlist(nodes, parsed, netlist, hashSeed, o)} :
              /\ nodes' = m.nodes
              /\ gnodes' = m.used
              /\ out' = m.out
              /\ netlist' = m.netlist
              /\ opts' = o
    /\ hist' = Append(hist, nodes)
    /\ pc' = "made"
    /\ UNCHANGED <<parsed, hasParsed, galias, counters, stmts, hashSeed>>

NextMake == MakeNetlistCall

SpecMake == InitMake /\ [][NextMake]_vars

\* the same call made on a freshly parsed object
FreshCall == MakeNetlist(<<>>, parsed, <<>>, hashSeed, opts)

C11_MakeNetlistReturnsText ==
    pc = "made" => (~IsRaised(out) /\ netlist = out)

\* C12: wire statements carry the "; direction" suffix exactly when
\* include_directions is true: with the option false and minimal false every
\* wire is written as W n1 n2 with no suffix.
C12_WireSuffixFollowsOption ==
    (pc = "once" /\ ~IsRaised(out) /\ ~opts.minimal) =>
        \A i \in 1..Len(stmts) :
            stmts[i].kind = "wire" => (HasChar(LineOf(out, i), ";") <=> opts.directions)

\* the non-ground flags of the parsed data that sit on a wire endpoint
LabelledNetFlags(pd) ==
    {f \in AllFlagsOf(pd) : ~IsGroundLabel(f.val) /\ NodeKey(f.x, f.y) \in UNION WireEdges(pd)}

\* C13: with use_named_nodes on, a net that carries a non-ground flag label
\* is written in the netlist by that label; with it off the label is not a
\* node field and every resolved node field is an integer.
C13_LabelledNetKeepsName ==
    (pc = "once" /\ ~IsRaised(out) /\ ~opts.minimal) =>
        \A f \in LabelledNetFlags(parsed) :
            IF opts.named THEN f.val \in NodeFieldsOf(out)
            ELSE /\ f.val \notin NodeFieldsOf(out)
                 /\ \A t \in NodeFieldsOf(out) : IsDigitStr(t) \/ t = sQ

\* the names (first fields) of the statements of a text that start with prefix
StatementNames(text, prefix) ==
    LET lines == SelectSeq(SplitChar(text, NL), LAMBDA l : ~IsBlank(l))
        names == [k \in 1..Len(lines) |-> SplitWS(lines[k])[1]]
    IN  SelectSeq(names, LAMBDA n : StartsWith(n, prefix))

\* how many symbol records of a kind the parsed data holds
SymbolCount(pd, kind) ==
    Cardinality({i \in 1..Len(pd) : /\ pd[i].tag = "GROUP"
                                    /\ pd[i].items[1].tag = "SYMBOL"
                                    /\ pd[i].items[1].kind = kind})

\* C16: within one generation pass the k-th ammeter in file order is named
\* AMk and the k-th voltmeter VMk, whatever their InstName; the two counters
\* are independent of each other and of the other kinds.
C16_MetersNumberedPerPass ==
    (pc \in {"once", "twice"} /\ ~IsRaised(out)) =>
        /\ StatementNames(out, sAM) = [k \in 1..SymbolCount(parsed, "ammeter") |-> sAM \o IntToStr(k)]
        /\ StatementNames(out, sVM) = [k \in 1..SymbolCount(parsed, "voltmeter") |-> sVM \o IntToStr(k)]

-----------------------------------------------------------------------------
(* NetlistGenerator.generate on schematics that end with IOPin records *)

MaxPortRecords == 2

\* the records in front of the IOPins
PortRecords ==
    { Wire(P0[1], P0[2], G1[1], G1[2], <<Flag(G1[1], G1[2], sZero)>>),
      Wire(P1[1], P1[2], G2[1], G2[2], <<Flag(G2[1], G2[2], sZero)>>),
      Group(<<Flag(P0[1], P0[2], sOut)>>),
      Group(<<Flag(G2[1], G2[2], sZero)>>),
      Group(<<Symbol("ammeter", P0[1], P0[2], "R0"), Attr("InstName", sSpace \o sA1)>>) }

PortPins ==
    { <<IOPin(P0[1], P0[2])>>,
      <<IOPin(P0[1], P0[2]), IOPin(P1[1], P1[2])>>,
      <<IOPin(P1[1], P1[2]), IOPin(P0[1], P0[2])>> }

PortSchematics == {s \o io : s \in SeqsUpTo(PortRecords, MaxPortRecords), io \in PortPins}

InitPorts ==
    /\ parsed \in PortSchematics
    /\ hasParsed = TRUE
    /\ nodes = MakeNodesFromWires(<<>>, parsed)
    /\ gnodes = nodes /\ galias = TRUE
    /\ counters = NoCounters
    /\ opts = [op |-> "none"]
    /\ netlist = <<>> /\ out = <<>> /\ hist = <<>> /\ stmts = <<>>
    /\ hashSeed = "ascending"
    /\ pc = "start"

NextPorts == GenerateFirst

SpecPorts == InitPorts /\ [][NextPorts]_vars

\* the lines of the returned text after those of the statements
PortLines(text, ss) ==
    LET lines == SelectSeq(SplitChar(text, NL), LAMBDA l : ~IsBlank(l))
    IN  IF Len(lines) <= Len(ss) THEN <<>> ELSE SubSeq(lines, Len(ss) + 1, Len(lines))

\* the label of the port of an IOPin at c: the text of the flag there, or
\* the placeholder
PortLabelAt(pd, c) ==
    LET here == {f \in AllFlagsOf(pd) : <<f.x, f.y>> = c}
    IN  IF here = {} THEN sPortLabel \o IntToStr(c[1]) \o <<"_">> \o IntToStr(c[2])
        ELSE (CHOOSE f \in here : TRUE).val

\* the id the node map held for coordinate c before generate ran
IdBefore(pd, c) == DictGet(MakeNodesFromWires(<<>>, pd), NodeKey(c[1], c[2]), Unknown).s

\* C17: the k-th IOPin in file order yields, after all other statements, the
\* port statement Pk <node> 0; down, v=<label> (without down, in minimal
\* mode); <label> is the text of the flag at the IOPin's coordinate or the
\* placeholder PORT_x_y; <node> is the node of that coordinate: the
\* statements carry it for the terminals resolved there and for no others.
C17_PortStatements ==
    pc = "once" =>
        LET io == Iopins(parsed)
            ports == PortLines(out, stmts)
        IN  /\ ~IsRaised(out)
            /\ Len(ports) = Len(io)
            /\ \A k \in 1..Len(io) :
                  LET parts == SplitWS(ports[k])
                      tail == IF opts.minimal THEN sPortTailMinimal ELSE sPortTail
                  IN  /\ Len(parts) >= 2
                      /\ ports[k] = sPortHead \o IntToStr(k) \o sSpace \o parts[2] \o tail
                                        \o PortLabelAt(parsed, io[k])
                      /\ \A p \in Slots(stmts) :
                            stmts[p[1]].n[p[2]] # sQ =>
                                ((stmts[p[1]].n[p[2]] = IdBefore(parsed, io[k]))
                                    <=> (OutField(out, stmts, p) = parts[2]))

\* C18: an IOPin coordinate that is absent from the node map is added as a
\* new node whose id differs from every other id of the map, and its port
\* is written; generate does not raise, also when the map holds no
\* positive integer id.
C18_MissingPortNodeAdded ==
    pc = "once" =>
        LET io == Iopins(parsed)
            absent == {k \in 1..Len(io) : IdBefore(parsed, io[k]) = sQ}
        IN  /\ ~IsRaised(out)
            /\ Len(PortLines(out, stmts)) = Len(io)
            /\ \A k \in absent :
                  /\ DictHas(gnodes, NodeKey(io[k][1], io[k][2]))
                  /\ \A j \in 1..Len(gnodes) :
                        gnodes[j].k # NodeKey(io[k][1], io[k][2]) =>
                            gnodes[j].v # DictGet(gnodes, NodeKey(io[k][1], io[k][2]), Unknown)

-----------------------------------------------------------------------------
(* nodes.py: the two ways of resolving the nodes, on one NodeManager *)

MaxNodeRecords == 3

\* wires with and without ground flags, a wire that joins the two ground
\* locations, standalone flags
NodeRecords ==
    { Wire(P0[1], P0[2], G1[1], G1[2], <<Flag(G1[1], G1[2], sZero)>>),
      Wire(P1[1], P1[2], G2[1], G2[2], <<Flag(G2[1], G2[2], sZero)>>),
      Wire(P1[1], P1[2], G2[1], G2[2], <<>>),
      Wire(G1[1], G1[2], G2[1], G2[2], <<>>),
      Wire(P0[1], P0[2], P1[1], P1[2], <<>>),
      Group(<<Flag(P0[1], P0[2], sOut)>>),
      Group(<<Flag(G2[1], G2[2], sZero)>>) }

NodeSchematics == SeqsUpTo(NodeRecords, MaxNodeRecords)

InitNodes ==
    /\ parsed \in NodeSchematics
    /\ hasParsed = TRUE
    /\ nodes = <<>> /\ gnodes = <<>> /\ galias = FALSE
    /\ counters = NoCounters
    /\ opts = [op |-> "none"]
    /\ netlist = <<>> /\ out = <<>> /\ hist = <<>> /\ stmts = <<>>
    /\ hashSeed \in {"ascending", "descending"}
    /\ pc = "start"

\* nm.make_nodes_from_wires(parsed); the map is kept aside in gnodes
ResolveFromWires ==
    /\ pc = "start"
    /\ nodes' = MakeNodesFromWires(nodes, parsed)
    /\ gnodes' = nodes'
    /\ pc' = "wires"
    /\ UNCHANGED <<parsed, hasParsed, galias, counters, opts, netlist, out, hist, stmts, hashSeed>>

\* nm.make_nodes_with_net_extraction(parsed), on the same object
ResolveWithNets ==
    /\ pc = "wires"
    /\ nodes' = MakeNodesWithNetExtraction(nodes, parsed, hashSeed)
    /\ pc' = "nets"
    /\ UNCHANGED <<parsed, hasParsed, gnodes, galias, counters, opts, netlist, out, hist, stmts, hashSeed>>

NextNodes == ResolveFromWires \/ ResolveWithNets

SpecNodes == InitNodes /\ [][NextNodes]_vars

\* the coordinates a chain of wires joins to c
WireJoined(pd, c) == Component({c}, WireEdges(pd))

\* c is ground: a ground flag sits on it or on a coordinate wired to it
OnGround(pd, c) == WireJoined(pd, c) \cap GroundFlagCoords(pd) # {}

\* C19: after make_nodes_with_net_extraction the coordinates of one
\* wire-connected component have one node id, and two coordinates of the map
\* that no chain of wires joins and that are not both ground have different
\* ids, a flag coordinate that no wire touches included.
C19_OneIdPerNet ==
    pc = "nets" =>
        \A i, j \in 1..Len(nodes) :
            IF nodes[j].k \in WireJoined(parsed, nodes[i].k)
            THEN nodes[i].v = nodes[j].v
            ELSE (OnGround(parsed, nodes[i].k) /\ OnGround(parsed, nodes[j].k))
                    \/ nodes[i].v # nodes[j].v

\* the token of the ground location c: 0 when it is the only location, else
\* 0_k with k its rank among the locations in order of first appearance
GroundTokenOf(pd, c) ==
    LET fl == FlagsReadAll(pd)
        at(loc) == {m \in 1..Len(fl) : IsGroundLabel(fl[m].val) /\ <<fl[m].x, fl[m].y>> = loc}
        first(loc) == CHOOSE m \in at(loc) : \A n \in at(loc) : m <= n
        locs == GroundFlagCoords(pd)
    IN  IF Cardinality(locs) <= 1 THEN IntId(0)
        ELSE GroundName(Cardinality({l \in locs : first(l) <= first(c)}))

\* C20: every ground-flag coordinate has the same token after
\* make_nodes_from_wires and after make_nodes_with_net_extraction: 0, or 0_k
\* numbered by first appearance of its location, also when wires join two
\* distinct ground locations.
C20_GroundIdsSameInBothModes ==
    pc = "nets" =>
        \A c \in GroundFlagCoords(parsed) :
            /\ DictGet(gnodes, NodeKey(c[1], c[2]), Unknown) = GroundTokenOf(parsed, c)
            /\ DictGet(nodes, NodeKey(c[1], c[2]), Unknown) = GroundTokenOf(parsed, c)

-----------------------------------------------------------------------------
(* components.py: rotate_point and match_node on one symbol.  The node map  *)
(* holds one coordinate, so the id a terminal comes back with tells where   *)
(* match_node looked.                                                       *)

PinKinds == {"res", "cap", "ind", "voltage", "current", "opamp"}
PinRotations == {"R0", "R90", "R180", "R270"}
PinOrigins == {<<0, 0>>, <<32, -48>>}

\* the distances, along either axis, between an origin and the one coordinate
\* of the node map
PinOffsets == {-112, -96, -80, -64, -32, -16, 0, 16, 32, 64, 80, 96, 112}

\* the point handed to rotate_point: the offsets of terminal 1, or the output
\* pin of the 3-pin op-amp
PinProbe(kind) ==
    IF kind = "opamp" THEN <<32, 64>> ELSE <<TwoTermConfig(kind)[1], TwoTermConfig(kind)[2]>>

InitPins ==
    /\ \E kind \in PinKinds, o \in PinOrigins, rot \in PinRotations :
          parsed = <<Group(<<Symbol(kind, o[1], o[2], rot)>>)>>
    /\ opts = [direction |-> DirectionMap(parsed[1].items[1].rot)]
    /\ \E a \in PinOffsets, b \in PinOffsets :
          nodes = <<[k |-> NodeKey(parsed[1].items[1].x + a, parsed[1].items[1].y + b),
                     v |-> IntId(1)]>>
    /\ hasParsed = TRUE
    /\ gnodes = nodes /\ galias = TRUE
    /\ counters = NoCounters
    /\ netlist = <<>> /\ out = <<>> /\ hist = <<>> /\ stmts = <<>>
    /\ hashSeed = "ascending"
    /\ pc = "start"

\* rotate_point(x_off, y_off, direction)
RotateOffsets ==
    /\ pc = "start"
    /\ hist' = RotatePoint(PinProbe(parsed[1].items[1].kind)[1],
                           PinProbe(parsed[1].items[1].kind)[2], opts.direction)
    /\ pc' = "rotated"
    /\ UNCHANGED <<parsed, hasParsed, nodes, gnodes, galias, counters, opts, netlist, out,
                   stmts, hashSeed>>

\* ComponentMatcher(nodes).match_node(x, y, kind, direction)
MatchPins ==
    /\ pc = "rotated"
    /\ LET sym == parsed[1].items[1]
       IN  out' = IF sym.kind = "opamp"
                  THEN MatchSimpleOpampNodes(nodes, sym.x, sym.y, opts.direction)
                  ELSE MatchNode(nodes, sym.x, sym.y, sym.kind, opts.direction)
    /\ pc' = "matched"
    /\ UNCHANGED <<parsed, hasParsed, nodes, gnodes, galias, counters, opts, netlist, hist,
                   stmts, hashSeed>>

NextPins == RotateOffsets \/ MatchPins

SpecPins == InitPins /\ [][NextPins]_vars

\* the four quarter turns as the convention states them
Turned(p, direction) ==
    CASE direction = "down" -> <<p[1], p[2]>>
      [] direction = "left" -> <<0 - p[2], p[1]>>
      [] direction = "up" -> <<0 - p[1], 0 - p[2]>>
      [] direction = "right" -> <<p[2], 0 - p[1]>>

PinOrigin == <<parsed[1].items[1].x, parsed[1].items[1].y>>
PinKind == parsed[1].items[1].kind

\* the one coordinate of the node map is origin + p turned
MapIsAt(p) ==
    nodes[1].k = NodeKey(PinOrigin[1] + Turned(p, opts.direction)[1],
                         PinOrigin[2] + Turned(p, opts.direction)[2])

\* C21: rotate_point maps (x, y) to (x, y), (-y, x), (-x, -y), (y, -x) for
\* down, left, up, right; match_node looks terminal 1 of a configured
\* two-terminal component up at origin + rotate_point((x_off, y_off)), in each
\* of the four orientations, and the op-amp pins follow the same convention.
C21_OneRotationConvention ==
    /\ pc \in {"rotated", "matched"} => hist = Turned(PinProbe(PinKind), opts.direction)
    /\ pc = "matched" =>
          IF PinKind = "opamp"
          THEN (out.out = IntId(1)) <=> MapIsAt(<<32, 64>>)
          ELSE (out.n1 = IntId(1)) <=> MapIsAt(PinProbe(PinKind))

C21_Witness ==
    /\ pc = "matched"
    /\ PinKind = "res"
    /\ opts.direction = "left"
    /\ out.n1 = IntId(1)

\* C22: match_node looks terminal 2 of a configured two-terminal component up
\* at origin + rotate((x_off, y_off + length)), for every origin and
\* orientation.
C22_SecondTerminalAlongLength ==
    (pc = "matched" /\ PinKind # "opamp") =>
        ((out.n2 = IntId(1))
            <=> MapIsAt(<<TwoTermConfig(PinKind)[1],
                          TwoTermConfig(PinKind)[2] + TwoTermConfig(PinKind)[3]>>))

-----------------------------------------------------------------------------
(* transformations.py: convert_named_nodes_to_numbers on its own *)

sIn == <<"i", "n">>

\* the node ids of the conversion inputs, in the order of the node map:
\* numbers, bare ground, a split ground, two names
ConvTokens == <<IntToStr(1), IntToStr(2), sZero, GroundName(1).s, sOut, sIn>>

ConvStmts ==
    {Stmt("wire", sW, <<ConvTokens[a], ConvTokens[b]>>, <<>>, sDown) : a, b \in 1..Len(ConvTokens)}
    \cup {Stmt("opamp", sE1, <<sOut, sZero, a, sIn>>, <<>>, <<>>) : a \in {IntToStr(1), sOut, sIn}}

\* the value of the map for a node id of the text: an int for a number and
\* for bare ground, a str otherwise
IdOfToken(t) == IF IsDigitStr(t) THEN IntId(StrToInt(t)) ELSE StrId(t)

\* the node map of a netlist: one coordinate for every id of the text, and a
\* second coordinate for the node out
ConvMap(ss) ==
    LET used == SelectSeq([k \in 1..Len(ConvTokens) |-> k],
                          LAMBDA k : ConvTokens[k] \in ResolvedIds(ss))
        first == [i \in 1..Len(used) |->
                    [k |-> NodeKey(16 * used[i], 0), v |-> IdOfToken(ConvTokens[used[i]])]]
    IN  IF sOut \in ResolvedIds(ss)
        THEN Append(first, [k |-> NodeKey(0, 16), v |-> StrId(sOut)])
        ELSE first

InitConvert ==
    /\ stmts \in SeqsUpTo(ConvStmts, MaxStmts)
    /\ netlist = RenderNetlist(stmts)
    /\ nodes = ConvMap(stmts)
    /\ gnodes = nodes /\ galias = TRUE
    /\ parsed = <<>> /\ hasParsed = FALSE
    /\ counters = NoCounters
    /\ opts = [op |-> "none"]
    /\ hashSeed = "ascending"
    /\ out = <<>> /\ hist = <<>> /\ pc = "start"

\* text, new_nodes = convert_named_nodes_to_numbers(netlist, nodes)
Convert ==
    /\ pc = "start"
    /\ \E c \in {ConvertNamedNodesToNumbers(netlist, nodes)} :
          /\ out' = c.text
          /\ gnodes' = c.dict
    /\ galias' = FALSE
    /\ pc' = "converted"
    /\ UNCHANGED <<parsed, hasParsed, nodes, counters, opts, netlist, hist, stmts, hashSeed>>

NextConvert == Convert

SpecConvert == InitConvert /\ [][NextConvert]_vars

\* the largest integer id of the node map before the conversion
MaxIntId(d) == MaxOf({IntOf(d[i].v) : i \in {j \in 1..Len(d) : d[j].v.int}}, 0)

\* C23: convert_named_nodes_to_numbers gives every node name that is neither
\* a number nor a ground token a distinct integer greater than every integer
\* id of the node map, in every node field of the netlist and in the map
\* alike, and leaves bare 0, the split grounds 0_k and the numeric ids as
\* they are.
C23_NamedNodesBecomeNumbers ==
    pc = "converted" =>
        /\ \A p \in Slots(stmts) :
              LET old == stmts[p[1]].n[p[2]]
                  new == OutField(out, stmts, p)
              IN  IF IsGroundToken(old) \/ IsDigitStr(old) THEN new = old
                  ELSE /\ IsDigitStr(new)
                       /\ StrToInt(new) > MaxIntId(nodes)
                       /\ \A q \in Slots(stmts) :
                             (stmts[q[1]].n[q[2]] = old) <=> (OutField(out, stmts, q) = new)
                       /\ \A i \in 1..Len(nodes) :
                             nodes[i].v.s = old => gnodes[i] = [k |-> nodes[i].k, v |-> IntId(StrToInt(new))]
        /\ Len(gnodes) = Len(nodes)
        /\ \A i \in 1..Len(nodes) :
              (IsGroundToken(nodes[i].v.s) \/ nodes[i].v.int) => gnodes[i] = nodes[i]

-----------------------------------------------------------------------------
(* transformations.py: renumber_nodes_for_drawing with a node map, on       *)
(* netlists with sources, valued components and the letter x outside the    *)
(* node fields                                                              *)

sRx1 == <<"R", "x", "1">>
sBraceRx == <<"{", "R", "x", "}">>

\* wires, a source whose value is 0 or 5, a resistor, and a resistor whose
\* name and value contain the letter x
DrawStmts ==
    {Stmt("wire", sW, <<a, b>>, <<>>, sDown) :
        a \in {IntToStr(1), IntToStr(2), sZero}, b \in {sZero, IntToStr(1)}}
    \cup {Stmt("valued", sV1, <<a, sZero>>, v, sDown) :
             a \in {IntToStr(1), IntToStr(2)}, v \in {sZero, sFive}}
    \cup {Stmt("valued", sR1, <<IntToStr(2), IntToStr(1)>>, s1000, sDown),
          Stmt("valued", sRx1, <<IntToStr(2), IntToStr(1)>>, sBraceRx, sDown)}

\* the ids a coordinate that no statement references may hold
MaxSpareId == 3

\* the node map of a netlist: a coordinate for each id of the text, in the
\* order of the ids, and a spare coordinate whose node is in no statement
\* when spare is not 0
DrawMap(ss, spare) ==
    LET ids == <<IntToStr(1), IntToStr(2), sZero>>
        used == SelectSeq([k \in 1..Len(ids) |-> k], LAMBDA k : ids[k] \in ResolvedIds(ss))
        first == [i \in 1..Len(used) |->
                    [k |-> NodeKey(16 * used[i], 0), v |-> IdOfToken(ids[used[i]])]]
    IN  IF spare = 0 THEN first ELSE Append(first, [k |-> NodeKey(0, 16), v |-> IntId(spare)])

InitDraw ==
    /\ stmts \in SeqsUpTo(DrawStmts, MaxStmts)
    /\ netlist = RenderNetlist(stmts)
    /\ \E spare \in 0..MaxSpareId :
          /\ spare \notin {StrToInt(t) : t \in {u \in ResolvedIds(stmts) : IsDigitStr(u)}}
          /\ nodes = DrawMap(stmts, spare)
    /\ \E p \in RenumParsed : hasParsed = p.hp /\ parsed = p.pd
    /\ gnodes = nodes /\ galias = TRUE
    /\ counters = NoCounters
    /\ opts = [op |-> "none"]
    /\ hashSeed = "ascending"
    /\ out = <<>> /\ hist = <<>> /\ pc = "start"

\* text, nodes = renumber_nodes_for_drawing(netlist, nodes_dict=nodes,
\* parsed_data=parsed); the map is updated in place
Draw ==
    /\ pc = "start"
    /\ \E r \in {RenumberNodesForDrawing(netlist, nodes, hasParsed, parsed)} :
          /\ out' = r.text
          /\ nodes' = r.dict
          /\ gnodes' = r.dict
    /\ hist' = <<nodes>>
    /\ pc' = "drawn"
    /\ UNCHANGED <<parsed, hasParsed, galias, counters, opts, netlist, stmts, hashSeed>>

NextDraw == Draw

SpecDraw == InitDraw /\ [][NextDraw]_vars

\* the statements with every value 0 replaced by 5
NonZeroValues(ss) ==
    [i \in 1..Len(ss) |-> IF ss[i].val = sZero THEN [ss[i] EXCEPT !.val = sFive] ELSE ss[i]]

\* C24: in renumber_nodes_for_drawing the value field of a source is no node:
\* a value 0 is not renamed, and it does not count as a ground occurrence -
\* with or without parsed data every node field comes out as it does when
\* the value is not 0, and without parsed data a netlist with exactly one
\* ground node occurrence keeps the bare 0.
C24_SourceValueIsNoNode ==
    pc = "drawn" =>
        /\ \A i \in 1..Len(stmts) :
              StartsWith(stmts[i].name, sV) => FieldOf(out, i, 4) = stmts[i].val
        /\ \A p \in Slots(stmts) :
              OutField(out, stmts, p)
                 = OutField(RenumberNodesForDrawing(RenderNetlist(NonZeroValues(stmts)),
                                                    hist[1], hasParsed, parsed).text, stmts, p)
        /\ (~hasParsed /\ Cardinality(GroundSlots(stmts)) = 1) =>
              \A p \in GroundSlots(stmts) : OutField(out, stmts, p) = sZero

\* the node fields of the result in the slots that held id before the pass
FieldsOfId(id) == {OutField(out, stmts, p) : p \in {q \in Slots(stmts) : stmts[q[1]].n[q[2]] = id}}

\* C27: after renumber_nodes_for_drawing with a node map, every coordinate
\* maps to the id under which its node stands in the renumbered netlist, and
\* two coordinates have one id only if they had one id before the pass, a
\* coordinate whose node is in no statement included.
C27_NodeMapFollowsNetlist ==
    pc = "drawn" =>
        /\ Len(nodes) = Len(hist[1])
        /\ \A i \in 1..Len(nodes) :
              /\ nodes[i].k = hist[1][i].k
              /\ FieldsOfId(hist[1][i].v.s) # {} => nodes[i].v.s \in FieldsOfId(hist[1][i].v.s)
        /\ \A i, j \in 1..Len(nodes) :
              nodes[i].v = nodes[j].v => hist[1][i].v = hist[1][j].v

\* the text of a statement after its first three fields (name and the two
\* node fields of a wire or valued component)
AfterNodes(line) ==
    LET parts == SplitWS(line)
    IN  IF Len(parts) <= 3 THEN <<>> ELSE SubSeq(parts, 4, Len(parts))

\* C29: renumber_nodes_for_drawing changes node fields only: the name, the
\* value and the trailing annotation of every statement are the same
\* characters as before, also when they contain the letter x, and the
\* statements are as many as before and in the same order.
C29_OnlyNodeFieldsChange ==
    pc = "drawn" =>
        /\ Len(SplitChar(out, NL)) = Len(SplitChar(netlist, NL))
        /\ \A i \in 1..Len(stmts) :
              /\ FieldOf(out, i, 1) = stmts[i].name
              /\ AfterNodes(LineOf(out, i)) = AfterNodes(LineOf(netlist, i))
              /\ EndsWith(SplitWS(LineOf(out, i))[3], sSemi)
                    <=> EndsWith(SplitWS(LineOf(netlist, i))[3], sSemi)

-----------------------------------------------------------------------------
(* netlist.py: wire_to_netlist on one WIRE record *)

\* the coordinates of the wire ends, along either axis
WireCoords == {0, 16, 48}

InitWire ==
    /\ \E x1 \in WireCoords, y1 \in WireCoords, x2 \in WireCoords, y2 \in WireCoords :
          parsed = <<Wire(x1, y1, x2, y2, <<>>)>>
    /\ hasParsed = TRUE
    /\ nodes = MakeNodesFromWires(<<>>, parsed)
    /\ gnodes = nodes /\ galias = TRUE
    /\ counters = NoCounters
    /\ opts \in {o \in GenOptions : ~o.named /\ ~o.reorient /\ ~o.renumber}
    /\ hashSeed = "ascending"
    /\ netlist = <<>> /\ out = <<>> /\ hist = <<>> /\ stmts = <<>> /\ pc = "start"

\* generator.wire_to_netlist(line), the statement appended to the netlist
WireStatement ==
    /\ pc = "start"
    /\ stmts' = <<WireToNetlist(gnodes, parsed[1], opts)>>
    /\ out' = RenderNetlist(stmts')
    /\ netlist' = out'
    /\ pc' = "wired"
    /\ UNCHANGED <<parsed, hasParsed, nodes, gnodes, galias, counters, opts, hist, hashSeed>>

NextWire == WireStatement

SpecWire == InitWire /\ [][NextWire]_vars

WireDx == parsed[1].c[3] - parsed[1].c[1]
WireDy == parsed[1].c[4] - parsed[1].c[2]
WireAcross == Abs(WireDx) > Abs(WireDy)

\* the end of the wire that comes first: the one with the smaller x when the
\* wire goes across, with the smaller y otherwise
WireFirstEnd ==
    LET a == <<parsed[1].c[1], parsed[1].c[2]>>
        b == <<parsed[1].c[3], parsed[1].c[4]>>
    IN  IF WireAcross THEN (IF a[1] <= b[1] THEN a ELSE b)
        ELSE (IF a[2] <= b[2] THEN a ELSE b)

\* C25: wire_to_netlist takes a wire as horizontal exactly when |dx| > |dy|
\* (a wire with |dx| = |dy|, the zero-length wire included, is vertical),
\* writes only the directions right and down, and puts first the node of
\* the end with the smaller x (right) or the smaller y (down).
C25_WireRightOrDown ==
    pc = "wired" =>
        /\ stmts[1].dir \in {sRight, sDown, <<>>}
        /\ (opts.directions \/ ~opts.minimal) =>
              /\ stmts[1].dir = (IF WireAcross THEN sRight ELSE sDown)
              /\ LineOf(out, 1) = sW \o sSpace \o stmts[1].n[1] \o sSpace \o stmts[1].n[2]
                                      \o sSemi \o sSpace \o stmts[1].dir
        /\ stmts[1].n[1] = DictGet(gnodes, NodeKey(WireFirstEnd[1], WireFirstEnd[2]), Unknown).s
        /\ Len(stmts[1].n) = 2
        /\ {stmts[1].n[1], stmts[1].n[2]}
              = {DictGet(gnodes, NodeKey(parsed[1].c[1], parsed[1].c[2]), Unknown).s,
                 DictGet(gnodes, NodeKey(parsed[1].c[3], parsed[1].c[4]), Unknown).s}

\* a diagonal wire drawn upwards with |dx| = |dy|: vertical, ends swapped
C25_Witness ==
    /\ pc = "wired"
    /\ Abs(WireDx) = Abs(WireDy) /\ WireDy < 0
    /\ stmts[1].dir = sDown
    /\ stmts[1].n = <<IntToStr(2), IntToStr(1)>>

-----------------------------------------------------------------------------
(* NetlistGenerator.generate on schematics with op-amps *)

MaxOpampRecords == 3

sU2 == <<"U", "2">>
sUa == <<"U", "a">>

\* a 3-pin op-amp named U1 or Ua, a 5-pin op-amp named U2, and wires on the
\* inputs and the output of the 3-pin op-amp and on the inputs of the 5-pin
\* one
OpampRecords ==
    { Group(<<Symbol("opamp", 0, -48, "R0"), Attr("InstName", sSpace \o sU1)>>),
      Group(<<Symbol("opamp", 0, -48, "R0"), Attr("InstName", sSpace \o sUa)>>),
      Group(<<Symbol("Opamps/UniversalOpamp2", 0, 0, "R0"), Attr("InstName", sSpace \o sU2)>>),
      Wire(-32, 0, -32, 32, <<>>),
      Wire(32, 16, 48, 16, <<>>),
      Wire(-32, -16, -32, 16, <<>>) }

InitOpamp ==
    /\ parsed \in SeqsUpTo(OpampRecords, MaxOpampRecords)
    /\ hasParsed = TRUE
    /\ nodes = MakeNodesFromWires(<<>>, parsed)
    /\ gnodes = nodes /\ galias = TRUE
    /\ counters = NoCounters
    /\ opts = [op |-> "none"]
    /\ netlist = <<>> /\ out = <<>> /\ hist = <<>> /\ stmts = <<>>
    /\ hashSeed = "ascending"
    /\ pc = "start"

NextOpamp == GenerateFirst

SpecOpamp == InitOpamp /\ [][NextOpamp]_vars

\* C26: in every op-amp statement the generator emits, 5-pin or 3-pin and
\* whatever the InstName, renumber_nodes_for_drawing treats fields 1, 2, 4
\* and 5 as node slots: each holds the new id of the node it held, the same
\* id that node has in every other statement, and the keyword opamp stays.
C26_OpampSlotsRenumbered ==
    (pc = "once" /\ opts.renumber /\ ~IsRaised(out)) =>
        \A i \in 1..Len(stmts) :
            stmts[i].kind = "opamp" =>
                /\ FieldOf(out, i, 4) = sOpamp
                /\ \A j \in 1..4 : \A q \in SignalSlots(stmts) :
                      ~IsGroundToken(stmts[i].n[j]) =>
                          ((stmts[i].n[j] = stmts[q[1]].n[q[2]])
                              <=> (OutField(out, stmts, <<i, j>>) = OutField(out, stmts, q)))

-----------------------------------------------------------------------------
(* parser.py: parse on the lines of a file, then make_nodes_from_wires *)

\* parse: a WIRE line opens a WIRE list, a SYMBOL line a group, and a FLAG
\* line is appended to the last list whatever it is; a FLAG line that comes
\* first opens a group of its own
RECURSIVE ParseLines(_, _, _)
ParseLines(lines, i, acc) ==
    IF i > Len(lines) THEN acc
    ELSE IF lines[i].tag = "WIRE" THEN ParseLines(lines, i + 1, Append(acc, lines[i]))
    ELSE IF lines[i].tag = "SYMBOL" THEN ParseLines(lines, i + 1, Append(acc, Group(<<lines[i]>>)))
    ELSE IF Len(acc) > 0
         THEN ParseLines(lines, i + 1,
                  [acc EXCEPT ![Len(acc)] = [@ EXCEPT !.items = Append(@, lines[i])]])
    ELSE ParseLines(lines, i + 1, Append(acc, Group(<<lines[i]>>)))

MaxLines == 3

\* the lines of a file: wires, a symbol, ground flags at two places and a
\* label at the place of the first
FileLines ==
    { Wire(P0[1], P0[2], G1[1], G1[2], <<>>),
      Wire(P1[1], P1[2], G2[1], G2[2], <<>>),
      Symbol("res", 16, -16, "R90"),
      Flag(G1[1], G1[2], sZero),
      Flag(G2[1], G2[2], sZero),
      Flag(G1[1], G1[2], sOut) }

\* hist holds the lines of the file
InitParse ==
    /\ hist \in SeqsUpTo(FileLines, MaxLines)
    /\ parsed = <<>> /\ hasParsed = FALSE
    /\ nodes = <<>> /\ gnodes = <<>> /\ galias = FALSE
    /\ counters = NoCounters
    /\ opts = [op |-> "none"]
    /\ netlist = <<>> /\ out = <<>> /\ stmts = <<>>
    /\ hashSeed = "ascending"
    /\ pc = "start"

\* lt.parse()
Parse ==
    /\ pc = "start"
    /\ parsed' = ParseLines(hist, 1, <<>>)
    /\ hasParsed' = TRUE
    /\ pc' = "parsed"
    /\ UNCHANGED <<nodes, gnodes, galias, counters, opts, netlist, out, hist, stmts, hashSeed>>

\* node_manager.make_nodes_from_wires(lt.parsed)
MakeNodes ==
    /\ pc = "parsed"
    /\ nodes' = MakeNodesFromWires(nodes, parsed)
    /\ pc' = "resolved"
    /\ UNCHANGED <<parsed, hasParsed, gnodes, galias, counters, opts, netlist, out, hist, stmts,
                   hashSeed>>

NextParse == Parse \/ MakeNodes

SpecParse == InitParse /\ [][NextParse]_vars

\* C28: after make_nodes_from_wires every coordinate with a ground flag is
\* in the node map with a ground id (0 or 0_k), wherever the FLAG line is in
\* the file: first, after a wire, after another flag, after a symbol, or at
\* a coordinate that also has a label.
C28_GroundFlagsAreGround ==
    pc = "resolved" =>
        \A i \in 1..Len(hist) :
            (hist[i].tag = "FLAG" /\ IsGroundLabel(hist[i].val)) =>
                /\ DictHas(nodes, NodeKey(hist[i].x, hist[i].y))
                /\ IsGroundValue(DictGet(nodes, NodeKey(hist[i].x, hist[i].y), Unknown))

-----------------------------------------------------------------------------
(* transformations.py: the loop of renumber_nodes, one pass at a time.      *)
(* out is result, hist the results the passes started from, opts.found the  *)
(* node the scan of result found (none: <<>>).                              *)

InitLoop ==
    /\ stmts \in SeqsUpTo(RenumStmts, MaxStmts)
    /\ netlist = RenderNetlist(stmts)
    /\ out = netlist
    /\ hasParsed = FALSE /\ parsed = <<>>
    /\ hist = <<>> /\ pc = "scan"
    /\ nodes = <<>> /\ gnodes = <<>> /\ galias = TRUE /\ hashSeed = "ascending"
    /\ counters = NoCounters
    /\ opts = [found |-> FirstUnmarked(out)]

\* one pass of the while loop that finds an unmarked node: it is renamed to
\* next_node_num followed by x in every node position, and the scan restarts
RenamePass ==
    /\ pc = "scan"
    /\ opts.found # <<>>
    /\ out' = RenameInText(out, opts.found[1], IntToStr(Len(hist) + 1) \o sX)
    /\ opts' = [found |-> FirstUnmarked(out')]
    /\ hist' = Append(hist, out)
    /\ UNCHANGED <<parsed, hasParsed, nodes, gnodes, galias, counters, netlist, stmts,
                   hashSeed, pc>>

\* the pass that finds no unmarked node: break, return result
ExitLoop ==
    /\ pc = "scan"
    /\ opts.found = <<>>
    /\ pc' = "done"
    /\ UNCHANGED <<parsed, hasParsed, nodes, gnodes, galias, counters, opts, netlist, out, hist,
                   stmts, hashSeed>>

NextLoop == RenamePass \/ ExitLoop

\* what tells a step of each action from every other step: a renaming pass
\* adds a result to hist, the exit sets pc
PassTaken == pc = "scan" /\ opts.found # <<>> /\ hist' = Append(hist, out)
LoopLeft == pc = "scan" /\ opts.found = <<>> /\ pc' = "done"

\* the loop is sequential code: a pass that can be taken is taken
SpecLoop == InitLoop /\ [][NextLoop]_vars /\ WF_hist(PassTaken) /\ WF_pc(LoopLeft)

\* the node slots of a text that hold an unmarked non-ground node
UnmarkedSlots(text) ==
    {p \in Slots(stmts) :
        LET f == OutField(text, stmts, p)
        IN  ~HasChar(f, "x") /\ f # sZero /\ ~StartsWith(f, sZeroUnd)}

\* the results in the order the loop produced them, the input first
LoopTexts == Append(hist, out)

LoopPassesMark ==
    \A k \in 1..Len(hist) :
        /\ UnmarkedSlots(LoopTexts[k + 1]) \subseteq UnmarkedSlots(LoopTexts[k])
        /\ UnmarkedSlots(LoopTexts[k + 1]) # UnmarkedSlots(LoopTexts[k])

LoopExitState ==
    pc = "done" =>
        /\ Len(hist) = Cardinality({OutField(netlist, stmts, p) : p \in UnmarkedSlots(netlist)})
        /\ UnmarkedSlots(out) = {}

\* C30: the loop of renumber_nodes terminates for every netlist; each pass
\* that renames marks at least one node field that was unmarked, the number
\* of such passes is the number of distinct unmarked non-ground node ids of
\* the input, and on exit no unmarked non-ground node field is left.
C30_RenumberLoopTerminates ==
    /\ [](LoopPassesMark /\ LoopExitState)
    /\ <>(pc = "done")

\* the loop has run two renaming passes and left, and one of the nodes stood
\* in both statements
C30_Witness ==
    /\ pc = "done"
    /\ Len(hist) = 2
    /\ Len(stmts) = 2
    /\ \E a \in 1..2, b \in 1..2 : stmts[1].n[a] = stmts[2].n[b] /\ stmts[1].n[a] = IntToStr(2)

-----------------------------------------------------------------------------
(* netlist.py: _parse_prefixed_value on its own *)

LowerSeq ==
    <<"a", "b", "c", "d", "e", "f", "g", "h", "i", "j", "k", "l", "m",
      "n", "o", "p", "q", "r", "s", "t", "u", "v", "w", "x", "y", "z">>
UpperSeq ==
    <<"A", "B", "C", "D", "E", "F", "G", "H", "I", "J", "K", "L", "M",
      "N", "O", "P", "Q", "R", "S", "T", "U", "V", "W", "X", "Y", "Z">>

\* str.lower
LowerChar(c) ==
    IF \E k \in 1..Len(UpperSeq) : UpperSeq[k] = c
    THEN LowerSeq[CHOOSE k \in 1..Len(UpperSeq) : UpperSeq[k] = c]
    ELSE c
Lower(s) == [k \in 1..Len(s) |-> LowerChar(s[k])]

\* the micro sign is written here as the one-character token "mu"
MicroLetters == {"u", "mu"}

\* the end of the number the regular expression takes from the front of s,
\* for the unsigned whole numbers of this model: its leading digits
RECURSIVE NumberEnd(_, _)
NumberEnd(s, i) == IF i <= Len(s) /\ IsDigitChar(s[i]) THEN NumberEnd(s, i + 1) ELSE i

\* the multiplier _parse_prefixed_value chooses for a suffix, as a power of ten
PrefixExponent(suffix) ==
    LET low == Lower(suffix) IN
    IF StartsWith(low, <<"m", "e", "g">>) THEN 6
    ELSE IF StartsWith(low, <<"g">>) THEN 9
    ELSE IF StartsWith(low, <<"k">>) THEN 3
    ELSE IF Len(suffix) > 0 /\ suffix[1] \in MicroLetters THEN -6
    ELSE IF StartsWith(low, <<"m">>) THEN -3
    ELSE IF StartsWith(low, <<"n">>) THEN -9
    ELSE IF StartsWith(low, <<"p">>) THEN -12
    ELSE IF StartsWith(low, <<"f">>) THEN -15
    ELSE 0

\* _parse_prefixed_value: None, or the float base * 10^exp
ParsePrefixedValue(raw) ==
    LET s == Strip(raw)
        k == NumberEnd(s, 1)
    IN  IF s = <<>> \/ k = 1 THEN [ok |-> FALSE, base |-> 0, exp |-> 0]
        ELSE [ok |-> TRUE, base |-> StrToInt(Slice(s, 1, k - 1)),
              exp |-> PrefixExponent(Strip(Slice(s, k, Len(s))))]

MaxBase == 2

\* the spellings of the table's prefixes, and unit letters that may follow
PrefixSpellings ==
    {<<>>, <<"m", "e", "g">>, <<"M", "e", "g">>, <<"M", "E", "G">>, <<"g">>, <<"G">>,
     <<"k">>, <<"K">>, <<"u">>, <<"U">>, <<"mu">>, <<"m">>, <<"M">>, <<"n">>, <<"N">>,
     <<"p">>, <<"P">>, <<"f">>, <<"F">>}
UnitLetters == {<<>>, <<"A">>, <<"V">>, <<"H">>}
ValueTexts ==
    {IntToStr(b) \o p \o u : b \in 1..MaxBase, p \in PrefixSpellings, u \in UnitLetters}

InitValue ==
    /\ parsed = <<>> /\ hasParsed = FALSE
    /\ nodes = <<>> /\ gnodes = <<>> /\ galias = TRUE
    /\ counters = NoCounters
    /\ opts = [op |-> "none"]
    /\ netlist \in ValueTexts
    /\ out = <<>> /\ hist = <<>> /\ stmts = <<>>
    /\ hashSeed = "ascending"
    /\ pc = "start"

ParseValue ==
    /\ pc = "start"
    /\ out' = ParsePrefixedValue(netlist)
    /\ pc' = "value"
    /\ UNCHANGED <<parsed, hasParsed, nodes, gnodes, galias, counters, opts, netlist, hist,
                   stmts, hashSeed>>

NextValue == ParseValue

SpecValue == InitValue /\ [][NextValue]_vars

\* the suffix of the value text: what follows its number
SuffixOf(raw) == Slice(raw, NumberEnd(raw, 1), Len(raw))

\* the table of the specification, longest prefix first, on the lower-cased suffix
TablePrefixes ==
    <<<<"m", "e", "g">>, <<"g">>, <<"k">>, <<"u">>, <<"m">>, <<"n">>, <<"p">>, <<"f">>>>

\* C14: the multiplier is chosen by a case-insensitive, longest-first match:
\* a value text and its lower-case spelling get the same multiplier, and
\* meg in any case selects 1e6.
C14_PrefixCaseInsensitive ==
    pc = "value" =>
        /\ out.exp = ParsePrefixedValue(Lower(netlist)).exp
        /\ StartsWith(Lower(SuffixOf(netlist)), TablePrefixes[1]) => out.exp = 6

\* C15: a capital M alone is no prefix: 2M is 2.0, 2m is 2e-3, and only meg
\* selects 1e6.
C15_CapitalMIsNoPrefix ==
    pc = "value" =>
        /\ (StartsWith(SuffixOf(netlist), <<"M">>)
                /\ ~StartsWith(Lower(SuffixOf(netlist)), TablePrefixes[1])) => out.exp = 0
        /\ (StartsWith(SuffixOf(netlist), <<"m">>)
                /\ ~StartsWith(Lower(SuffixOf(netlist)), TablePrefixes[1])) => out.exp = -3
        /\ out.exp = 6 => StartsWith(Lower(SuffixOf(netlist)), TablePrefixes[1])

=============================================================================
